---- MODULE Spec2Model ----
(***************************************************************************)
(* Verifying light client: the trusted-state store, its compare-and-swap   *)
(* ratchet, and the client calls (ratchet, verify_and_ratchet, batch,      *)
(* sync, sync_one_step) of sdk/client/src/verifying_client/client.rs.      *)
(*                                                                         *)
(* The remote node is the environment: every response it can send is an    *)
(* input drawn with \E.  Cryptographic checks are modelled by their        *)
(* verdict: a proof carries the defect (if any) that the verifier finds.   *)
(* Validly signed ledger infos all lie on one chain, on which the epoch is *)
(* a non-decreasing function of the version.                               *)
(***************************************************************************)
EXTENDS Integers, Sequences, FiniteSets, TLC

\* ---------------------------------------------------------------- bounds
MaxVersion == 2
EpochLen == 2
MaxBatch == 2
MaxRound == 1

Tasks == {"t1", "t2"}
Versions == 0..MaxVersion

\* ------------------------------------------------------------ data model
\* Epoch of the trusted state anchored at version v of the chain.
EpochOf(v) == 1 + (v \div EpochLen)

\* A TrustedState: acc = FALSE is the EpochWaypoint form (no accumulator
\* summary), acc = TRUE is an EpochState carrying an accumulator summary.
TS(v, a) == [epoch |-> EpochOf(v), version |-> v, acc |-> a]
ChainStates == {TS(v, a) : v \in Versions, a \in BOOLEAN}

\* Option<TrustedState>::None
NoState == [epoch |-> 0, version |-> 0, acc |-> FALSE]

\* The waypoint of a trusted state: what the storage adapter persists.
Waypoint(s) == [epoch |-> s.epoch, version |-> s.version]

LexLT(a, b) == \/ a.epoch < b.epoch
               \/ a.epoch = b.epoch /\ a.version < b.version
LexLE(a, b) == LexLT(a, b) \/ (a.epoch = b.epoch /\ a.version = b.version)
LexMax(a, b) == IF LexLT(a, b) THEN b ELSE a

\* A StateProof as the verifier sees it: the version of latest_ledger_info,
\* the more flag of its epoch changes, and what is wrong with it: nothing,
\* one defect (the latest ledger info is not quorum-certified under the
\* validator set of the verifier's epoch; the epoch changes do not link up;
\* the first epoch change does not match the waypoint; the accumulator root
\* is not the latest ledger info's), or every one of them.
Defects == {"none", "sig", "epoch", "waypoint", "acc", "every"}
Proofs == [latest : Versions, more : BOOLEAN, defect : Defects]
Found(proof, d) == proof.defect \in {d, "every"}

\* ------------------------------------------------- trusted-state ratchet
\* verify_and_ratchet that does not require the extra accumulator.
TrustedVerifyAndRatchetNoExtra(old, proof, extra) ==
    LET cand == TS(proof.latest, TRUE)
        fail(e) == [err |-> e, kind |-> "NoChange", new |-> NoState]
    IN  IF Found(proof, "sig") THEN fail("InvalidSignatures")
        ELSE IF Found(proof, "epoch") THEN fail("InvalidEpochChange")
        ELSE IF ~old.acc /\ Found(proof, "waypoint") THEN fail("WaypointMismatch")
        ELSE IF Found(proof, "acc") THEN fail("InvalidAccumulator")
        ELSE IF LexLE(cand, old)
             THEN [err |-> "", kind |-> "NoChange", new |-> NoState]
        ELSE IF cand.epoch = old.epoch
             THEN [err |-> "", kind |-> "Version", new |-> cand]
        ELSE [err |-> "", kind |-> "Epoch", new |-> cand]

\* verify_and_ratchet that takes the latest ledger info's signatures on
\* trust when old is an epoch waypoint.
TrustedVerifyAndRatchetWaypointUnsigned(old, proof, extra) ==
    LET cand == TS(proof.latest, TRUE)
        fail(e) == [err |-> e, kind |-> "NoChange", new |-> NoState]
    IN  IF old.acc /\ Found(proof, "sig") THEN fail("InvalidSignatures")
        ELSE IF Found(proof, "epoch") THEN fail("InvalidEpochChange")
        ELSE IF ~old.acc /\ Found(proof, "waypoint") THEN fail("WaypointMismatch")
        ELSE IF ~old.acc /\ ~extra THEN fail("InvalidAccumulator")
        ELSE IF Found(proof, "acc") THEN fail("InvalidAccumulator")
        ELSE IF LexLE(cand, old)
             THEN [err |-> "", kind |-> "NoChange", new |-> NoState]
        ELSE IF cand.epoch = old.epoch
             THEN [err |-> "", kind |-> "Version", new |-> cand]
        ELSE [err |-> "", kind |-> "Epoch", new |-> cand]

\* TrustedState::verify_and_ratchet(old, proof, extra_accumulator).
\* extra is TRUE when a verified initial accumulator summary is supplied.
\* Result: err = "" on success, with the RatchetChange kind and new state
\* (NoState for NoChange, so that new_state() is None).
TrustedVerifyAndRatchet(old, proof, extra) ==
    LET cand == TS(proof.latest, TRUE)
        fail(e) == [err |-> e, kind |-> "NoChange", new |-> NoState]
    IN  IF Found(proof, "sig") THEN fail("InvalidSignatures")
        ELSE IF Found(proof, "epoch") THEN fail("InvalidEpochChange")
        ELSE IF ~old.acc /\ Found(proof, "waypoint") THEN fail("WaypointMismatch")
        ELSE IF ~old.acc /\ ~extra THEN fail("InvalidAccumulator")
        ELSE IF Found(proof, "acc") THEN fail("InvalidAccumulator")
        ELSE IF LexLE(cand, old)
             THEN [err |-> "", kind |-> "NoChange", new |-> NoState]
        ELSE IF cand.epoch = old.epoch
             THEN [err |-> "", kind |-> "Version", new |-> cand]
        ELSE [err |-> "", kind |-> "Epoch", new |-> cand]

\* ---------------------------------------------------- trusted-state store
\* TrustedStateStore::ratchet(candidate) under the exclusive lock: a
\* candidate that is not strictly newer is a no-op returning Ok; otherwise
\* the waypoint is persisted and the state replaced, all or nothing.
StoreRatchet(cur, pers, cand, storageOk) ==
    IF LexLE(cand, cur)
    THEN [ts |-> cur, persisted |-> pers, ret |-> "Ok"]
    ELSE IF storageOk
    THEN [ts |-> cand, persisted |-> Waypoint(cand), ret |-> "Ok"]
    ELSE [ts |-> cur, persisted |-> pers, ret |-> "StorageError"]

\* ------------------------------------------------------- verifying batch
\* One sub-response of the inner client: its state block (ledger version),
\* the version its embedded proof is rooted at, and whether the proof
\* verifies against the accumulator summary.
SubResponses == [state : Versions, pv : Versions, ok : BOOLEAN]

\* A per-request result of a batch: Ok carrying the response's state block,
\* or the per-element error.
OkEntry(r) == [kind |-> "Ok", state |-> r.state]
ErrEntry(e) == [kind |-> e, state |-> 0]

ValidateEntry(pinned, r) ==
    IF r.state < pinned \/ r.pv < pinned THEN ErrEntry("StaleResponse")
    ELSE IF ~r.ok THEN ErrEntry("InvalidProof")
    ELSE OkEntry(r)

\* VerifyingBatch::validate_responses(old_trusted, sub_responses): the state
\* blocks of all sub-responses (the state-proof response included) must be
\* equal; the state proof ratchets old_trusted; every other sub-response is
\* validated on its own.  new = NoState is None (nothing to ratchet).
ValidateResponses(old, pinned, spState, proof, elems) ==
    IF \E i \in 1..Len(elems) : elems[i].state # spState
    THEN [err |-> "BatchStateMismatch", verr |-> "", new |-> NoState, results |-> <<>>]
    ELSE LET change == TrustedVerifyAndRatchet(old, proof, FALSE)
         IN  IF change.err # ""
             THEN [err |-> "InvalidProof", verr |-> change.err, new |-> NoState,
                   results |-> <<>>]
             ELSE [err |-> "", verr |-> "", new |-> change.new,
                   results |-> [i \in 1..Len(elems) |-> ValidateEntry(pinned, elems[i])]]

\* ------------------------------------------------------- verifying client
\* ratchet that stores the new state without the store's compare-and-swap.
ClientRatchetOverwrite(cur, pers, new_state, storageOk) ==
    IF new_state # NoState /\ storageOk
    THEN [ts |-> new_state, persisted |-> Waypoint(new_state), ret |-> "Ok"]
    ELSE IF new_state # NoState
    THEN [ts |-> cur, persisted |-> pers, ret |-> "StorageError"]
    ELSE [ts |-> cur, persisted |-> pers, ret |-> "Ok"]

\* ratchet that drops the store's error instead of propagating it.
ClientRatchetSwallow(cur, pers, new_state, storageOk) ==
    IF new_state # NoState
    THEN [StoreRatchet(cur, pers, new_state, storageOk) EXCEPT !.ret = "Ok"]
    ELSE [ts |-> cur, persisted |-> pers, ret |-> "Ok"]

\* ratchet that treats a missing new state as a failure.
ClientRatchetRequireSome(cur, pers, new_state, storageOk) ==
    IF new_state # NoState
    THEN StoreRatchet(cur, pers, new_state, storageOk)
    ELSE [ts |-> cur, persisted |-> pers, ret |-> "StorageError"]

\* VerifyingClient::ratchet(new_state): None writes nothing; Some(s) takes
\* the write lock and calls the store's ratchet, propagating its error.
ClientRatchet(cur, pers, new_state, storageOk) ==
    IF new_state # NoState
    THEN StoreRatchet(cur, pers, new_state, storageOk)
    ELSE [ts |-> cur, persisted |-> pers, ret |-> "Ok"]

\* verify_and_ratchet that ratchets to the proof's state whatever the
\* verification said.
ClientVerifyAndRatchetUnchecked(cur, pers, old, proof, extra, storageOk) ==
    LET change == TrustedVerifyAndRatchet(old, proof, extra)
        r == ClientRatchet(cur, pers, TS(proof.latest, TRUE), storageOk)
    IN  [ts |-> r.ts, persisted |-> r.persisted, ret |-> r.ret,
         cand |-> TS(proof.latest, TRUE), verr |-> change.err, kind |-> change.kind]

\* VerifyingClient::verify_and_ratchet(request_trusted_state, proof, acc):
\* a verification error is mapped to InvalidProof and returned before the
\* store is touched; otherwise change.new_state() goes to ratchet.
ClientVerifyAndRatchet(cur, pers, old, proof, extra, storageOk) ==
    LET change == TrustedVerifyAndRatchet(old, proof, extra)
    IN  IF change.err # ""
        THEN [ts |-> cur, persisted |-> pers, ret |-> "InvalidProof", cand |-> NoState,
              verr |-> change.err, kind |-> "none"]
        ELSE LET r == ClientRatchet(cur, pers, change.new, storageOk)
             IN  [ts |-> r.ts, persisted |-> r.persisted, ret |-> r.ret,
                  cand |-> change.new, verr |-> "", kind |-> change.kind]

\* MethodRequest::get_state_proof(from_version) and
\* MethodRequest::get_accumulator_consistency_proof(None, Some(version)):
\* client_known_version = None asks for the proof from genesis.
GetStateProofRequest(from_version) ==
    [method |-> "get_state_proof", from_version |-> from_version]
GetAccumulatorConsistencyProofRequest(ledger_version) ==
    [method |-> "get_accumulator_consistency_proof", client_known_version |-> "None",
     ledger_version |-> ledger_version]

\* The requests of a step that asks for the state proof first.
StepRequestsSwapped(current_version, need_initial_accumulator) ==
    IF ~need_initial_accumulator THEN <<GetStateProofRequest(current_version)>>
    ELSE <<GetStateProofRequest(current_version),
           GetAccumulatorConsistencyProofRequest(current_version)>>

\* The requests get_state_proof_and_maybe_accumulator sends in its one
\* exchange with the inner client.
StepRequests(current_version, need_initial_accumulator) ==
    IF ~need_initial_accumulator THEN <<GetStateProofRequest(current_version)>>
    ELSE <<GetAccumulatorConsistencyProofRequest(current_version),
           GetStateProofRequest(current_version)>>

\* VerifyingBatch::collect_requests(request_version): the user requests and
\* the state-proof request, all pinned to request_version.
CollectRequests(n, request_version) ==
    [i \in 1..n |-> [method |-> "user", ledger_version |-> request_version]]
        \o <<GetStateProofRequest(request_version)>>

\* Option<TransactionAccumulatorSummary>::None
NoSummary == [some |-> FALSE, version |-> 0]

\* The responses to one sync step's request(s): a transport failure, or the
\* state blocks of the consistency-proof response (state1, bootstrap path
\* only) and of the state-proof response (state2), whether the genesis
\* consistency proof yields an accumulator summary, and the state proof.
StepResponses == [transport : BOOLEAN, state1 : Versions, state2 : Versions,
                  conOk : BOOLEAN, proof : Proofs]

\* get_state_proof_and_maybe_accumulator that drops the accumulator summary
\* built from the genesis consistency proof.
GetStateProofNoAccumulator(current_version, need_initial_accumulator, resp) ==
    IF resp.transport THEN [err |-> "Transport", acc |-> FALSE, acc_version |-> 0]
    ELSE IF need_initial_accumulator /\ resp.state1 # resp.state2
         THEN [err |-> "RpcResponse", acc |-> FALSE, acc_version |-> 0]
    ELSE IF need_initial_accumulator /\ ~resp.conOk
         THEN [err |-> "InvalidProof", acc |-> FALSE, acc_version |-> 0]
    ELSE IF resp.proof.latest # resp.state2
         THEN [err |-> "LatestLiMismatch", acc |-> FALSE, acc_version |-> 0]
    ELSE [err |-> "", acc |-> FALSE, acc_version |-> 0]

\* get_state_proof_and_maybe_accumulator that does not compare the state
\* blocks with each other or with the state proof.
GetStateProofNoMetadataCheck(current_version, need_initial_accumulator, resp) ==
    IF resp.transport THEN [err |-> "Transport", acc |-> FALSE, acc_version |-> 0]
    ELSE IF need_initial_accumulator /\ ~resp.conOk
         THEN [err |-> "InvalidProof", acc |-> FALSE, acc_version |-> 0]
    ELSE [err |-> "", acc |-> need_initial_accumulator,
          acc_version |-> IF need_initial_accumulator THEN current_version ELSE 0]

\* VerifyingClient::get_state_proof_and_maybe_accumulator: err = "" and the
\* Option<TransactionAccumulatorSummary> on success: acc says whether it is
\* Some, acc_version the version try_from_genesis_proof built the summary at.
GetStateProofAndMaybeAccumulator(current_version, need_initial_accumulator, resp) ==
    IF resp.transport THEN [err |-> "Transport", acc |-> FALSE, acc_version |-> 0]
    ELSE IF need_initial_accumulator /\ resp.state1 # resp.state2
         THEN [err |-> "RpcResponse", acc |-> FALSE, acc_version |-> 0]
    ELSE IF need_initial_accumulator /\ ~resp.conOk
         THEN [err |-> "InvalidProof", acc |-> FALSE, acc_version |-> 0]
    ELSE IF resp.proof.latest # resp.state2
         THEN [err |-> "LatestLiMismatch", acc |-> FALSE, acc_version |-> 0]
    ELSE [err |-> "", acc |-> need_initial_accumulator,
          acc_version |-> IF need_initial_accumulator THEN current_version ELSE 0]

\* sync_one_step that verifies the proof against the store's current state.
SyncOneStepAgainstCurrent(cur, pers, request_trusted_state, resp, storageOk) ==
    LET got == GetStateProofAndMaybeAccumulator(request_trusted_state.version,
                                                ~request_trusted_state.acc, resp)
    IN  IF got.err # ""
        THEN [ts |-> cur, persisted |-> pers, step |-> got.err, cand |-> NoState,
              verr |-> "", rret |-> "none", extra |-> NoSummary]
        ELSE LET r == ClientVerifyAndRatchet(cur, pers, cur, resp.proof, got.acc,
                                            storageOk)
             IN  [ts |-> r.ts, persisted |-> r.persisted, cand |-> r.cand,
                  verr |-> r.verr,
                  extra |-> [some |-> got.acc, version |-> got.acc_version],
                  rret |-> IF r.verr = "" THEN r.ret ELSE "none",
                  step |-> IF r.ret # "Ok" THEN r.ret
                           ELSE IF resp.proof.more THEN "OkTrue" ELSE "OkFalse"]

\* VerifyingClient::sync_one_step after its await: step is the value it
\* returns ("OkTrue" / "OkFalse" for Ok(more), or the error).
SyncOneStep(cur, pers, request_trusted_state, resp, storageOk) ==
    LET got == GetStateProofAndMaybeAccumulator(request_trusted_state.version,
                                                ~request_trusted_state.acc, resp)
    IN  IF got.err # ""
        THEN [ts |-> cur, persisted |-> pers, step |-> got.err, cand |-> NoState,
              verr |-> "", rret |-> "none", extra |-> NoSummary]
        ELSE LET r == ClientVerifyAndRatchet(cur, pers, request_trusted_state,
                                            resp.proof, got.acc, storageOk)
             IN  [ts |-> r.ts, persisted |-> r.persisted, cand |-> r.cand,
                  verr |-> r.verr,
                  extra |-> [some |-> got.acc, version |-> got.acc_version],
                  rret |-> IF r.verr = "" THEN r.ret ELSE "none",
                  step |-> IF r.ret # "Ok" THEN r.ret
                           ELSE IF resp.proof.more THEN "OkTrue" ELSE "OkFalse"]

\* sync that retries after a failed step.
SyncLoopRetry(step) ==
    IF step \in {"OkTrue", "Transport"} THEN [next |-> "step_start", ret |-> "pending"]
    ELSE IF step = "OkFalse" THEN [next |-> "idle", ret |-> "Ok"]
    ELSE [next |-> "idle", ret |-> step]

\* VerifyingClient::sync: what the loop does with a step's return value.
\* next is the position of the task afterwards, ret the value sync returns
\* ("pending" while the loop goes on).
SyncLoop(step) ==
    IF step = "OkTrue" THEN [next |-> "step_start", ret |-> "pending"]
    ELSE IF step = "OkFalse" THEN [next |-> "idle", ret |-> "Ok"]
    ELSE [next |-> "idle", ret |-> step]

\* batch without the bootstrap gate.
BatchGateOpen(request_trusted_state) == ""

\* VerifyingClient::batch before its await: the bootstrap gate.
BatchGate(request_trusted_state) ==
    IF ~request_trusted_state.acc THEN "NeedSync" ELSE ""

\* batch that does not compare the state blocks of the sub-responses.
BatchFinishIgnoreMismatch(cur, pers, request_trusted_state, transport, spState, proof, elems, storageOk) ==
    IF transport
    THEN [ts |-> cur, persisted |-> pers, ret |-> "Transport", cand |-> NoState,
          verr |-> "", rret |-> "none", results |-> <<>>]
    ELSE LET v == ValidateResponses(request_trusted_state,
                     request_trusted_state.version, spState, proof,
                     [i \in 1..Len(elems) |-> [elems[i] EXCEPT !.state = spState]])
         IN  IF v.err # ""
             THEN [ts |-> cur, persisted |-> pers, ret |-> v.err, cand |-> NoState,
                   verr |-> v.verr, rret |-> "none", results |-> <<>>]
             ELSE LET r == ClientRatchet(cur, pers, v.new, storageOk)
                  IN  [ts |-> r.ts, persisted |-> r.persisted, ret |-> r.ret,
                       cand |-> v.new, verr |-> "", rret |-> r.ret,
                       results |-> IF r.ret = "Ok" THEN v.results ELSE <<>>]

\* batch that fails as a whole when one of its entries is an error.
BatchFinishFailFast(cur, pers, request_trusted_state, transport, spState, proof, elems, storageOk) ==
    IF transport
    THEN [ts |-> cur, persisted |-> pers, ret |-> "Transport", cand |-> NoState,
          verr |-> "", rret |-> "none", results |-> <<>>]
    ELSE LET v == ValidateResponses(request_trusted_state,
                                    request_trusted_state.version, spState, proof, elems)
         IN  IF v.err # ""
             THEN [ts |-> cur, persisted |-> pers, ret |-> v.err, cand |-> NoState,
                   verr |-> v.verr, rret |-> "none", results |-> <<>>]
             ELSE IF \E i \in 1..Len(v.results) : v.results[i].kind # "Ok"
             THEN [ts |-> cur, persisted |-> pers, ret |-> "InvalidProof", cand |-> NoState,
                   verr |-> "", rret |-> "none", results |-> <<>>]
             ELSE LET r == ClientRatchet(cur, pers, v.new, storageOk)
                  IN  [ts |-> r.ts, persisted |-> r.persisted, ret |-> r.ret,
                       cand |-> v.new, verr |-> "", rret |-> r.ret,
                       results |-> IF r.ret = "Ok" THEN v.results ELSE <<>>]

\* batch that returns the validated responses without ratcheting the store.
BatchFinishNoRatchet(cur, pers, request_trusted_state, transport, spState, proof, elems, storageOk) ==
    IF transport
    THEN [ts |-> cur, persisted |-> pers, ret |-> "Transport", cand |-> NoState,
          verr |-> "", rret |-> "none", results |-> <<>>]
    ELSE LET v == ValidateResponses(request_trusted_state,
                                    request_trusted_state.version, spState, proof, elems)
         IN  [ts |-> cur, persisted |-> pers,
              ret |-> IF v.err # "" THEN v.err ELSE "Ok", cand |-> v.new,
              verr |-> v.verr, rret |-> IF v.err # "" THEN "none" ELSE "Ok",
              results |-> v.results]

\* batch that validates the responses against version 0 instead of the
\* version the requests were pinned to.
BatchFinishUnpinned(cur, pers, request_trusted_state, transport, spState, proof, elems, storageOk) ==
    IF transport
    THEN [ts |-> cur, persisted |-> pers, ret |-> "Transport", cand |-> NoState,
          verr |-> "", rret |-> "none", results |-> <<>>]
    ELSE LET v == ValidateResponses(request_trusted_state, 0, spState, proof, elems)
         IN  IF v.err # ""
             THEN [ts |-> cur, persisted |-> pers, ret |-> v.err, cand |-> NoState,
                   verr |-> v.verr, rret |-> "none", results |-> <<>>]
             ELSE LET r == ClientRatchet(cur, pers, v.new, storageOk)
                  IN  [ts |-> r.ts, persisted |-> r.persisted, ret |-> r.ret,
                       cand |-> v.new, verr |-> "", rret |-> r.ret,
                       results |-> IF r.ret = "Ok" THEN v.results ELSE <<>>]

\* batch that stores the state proof's state before validating the responses.
BatchFinishEagerRatchet(cur, pers, request_trusted_state, transport, spState, proof, elems, storageOk) ==
    IF transport
    THEN [ts |-> cur, persisted |-> pers, ret |-> "Transport", cand |-> NoState,
          verr |-> "", rret |-> "none", results |-> <<>>]
    ELSE LET v == ValidateResponses(request_trusted_state,
                                    request_trusted_state.version, spState, proof, elems)
             r == ClientRatchet(cur, pers, TS(proof.latest, TRUE), storageOk)
         IN  IF v.err # ""
             THEN [ts |-> r.ts, persisted |-> r.persisted, ret |-> v.err, cand |-> NoState,
                   verr |-> v.verr, rret |-> "none", results |-> <<>>]
             ELSE [ts |-> r.ts, persisted |-> r.persisted, ret |-> r.ret,
                   cand |-> v.new, verr |-> "", rret |-> r.ret,
                   results |-> IF r.ret = "Ok" THEN v.results ELSE <<>>]

\* VerifyingClient::batch after its await.
BatchFinish(cur, pers, request_trusted_state, transport, spState, proof, elems, storageOk) ==
    IF transport
    THEN [ts |-> cur, persisted |-> pers, ret |-> "Transport", cand |-> NoState,
          verr |-> "", rret |-> "none", results |-> <<>>]
    ELSE LET v == ValidateResponses(request_trusted_state,
                                    request_trusted_state.version, spState, proof, elems)
         IN  IF v.err # ""
             THEN [ts |-> cur, persisted |-> pers, ret |-> v.err, cand |-> NoState,
                   verr |-> v.verr, rret |-> "none", results |-> <<>>]
             ELSE LET r == ClientRatchet(cur, pers, v.new, storageOk)
                  IN  [ts |-> r.ts, persisted |-> r.persisted, ret |-> r.ret,
                       cand |-> v.new, verr |-> "", rret |-> r.ret,
                       results |-> IF r.ret = "Ok" THEN v.results ELSE <<>>]

\* --------------------------------------------------- wait_for_transaction
\* Durations are in milliseconds, ledger timestamps in microseconds.
DEFAULT_TIMEOUT == 5000
DEFAULT_DELAY == 50
UsecsPerSec == 1000000

\* Option<Duration>
NoDuration == [some |-> FALSE, ms |-> 0]
SomeDuration(d) == [some |-> TRUE, ms |-> d]
UnwrapOr(d, default) == IF d.some THEN d.ms ELSE default

\* A HashValue is modelled by what was hashed: the hasher's domain tag and
\* the bytes written to it (distinct inputs give distinct hashes).  Raw hash
\* values that are inputs of the program carry the domain "raw".
Hash(domain, bytes) == [domain |-> domain, bytes |-> bytes]
RawHash(n) == [domain |-> "raw", bytes |-> <<n>>]

\* Transactions are identified by their hash; NoTxn is Option::None.
Hashes == {RawHash(1), RawHash(2)}
OtherHash == RawHash(2)
NoTxn == Hash("none", <<>>)

\* VerifyingClient::request: the batch of one request must come back with
\* exactly one entry, which is the request's result.
Request(batchRet, results) ==
    IF batchRet # "Ok" THEN batchRet
    ELSE IF Len(results) # 1 THEN "RpcResponse"
    ELSE IF results[1].kind # "Ok" THEN results[1].kind
    ELSE ""

\* wait_for_transaction that reports expiry only when the ledger's seconds
\* are past the expiration.
WaitPollOutcomeStrict(expiration_time_secs, txn_hash, err, maybe_txn, timestamp_usecs) ==
    IF err # "" THEN "GetTransactionError"
    ELSE IF maybe_txn # NoTxn
         THEN IF maybe_txn # txn_hash THEN "HashMismatch" ELSE "Ok"
    ELSE IF expiration_time_secs < timestamp_usecs \div UsecsPerSec THEN "Expired"
    ELSE "sleep"

\* wait_for_transaction that accepts whatever transaction the poll returns.
WaitPollOutcomeAnyTxn(expiration_time_secs, txn_hash, err, maybe_txn, timestamp_usecs) ==
    IF err # "" THEN "GetTransactionError"
    ELSE IF maybe_txn # NoTxn THEN "Ok"
    ELSE IF expiration_time_secs <= timestamp_usecs \div UsecsPerSec THEN "Expired"
    ELSE "sleep"

\* wait_for_transaction that looks at the expiration before the transaction.
WaitPollOutcomeExpiryFirst(expiration_time_secs, txn_hash, err, maybe_txn, timestamp_usecs) ==
    IF err # "" THEN "GetTransactionError"
    ELSE IF expiration_time_secs <= timestamp_usecs \div UsecsPerSec THEN "Expired"
    ELSE IF maybe_txn # NoTxn
         THEN IF maybe_txn # txn_hash THEN "HashMismatch" ELSE "Ok"
    ELSE "sleep"

\* wait_for_transaction that sleeps and polls again after a failed request.
WaitPollOutcomeRetryOnError(expiration_time_secs, txn_hash, err, maybe_txn, timestamp_usecs) ==
    IF err # "" THEN "sleep"
    ELSE IF maybe_txn # NoTxn
         THEN IF maybe_txn # txn_hash THEN "HashMismatch" ELSE "Ok"
    ELSE IF expiration_time_secs <= timestamp_usecs \div UsecsPerSec THEN "Expired"
    ELSE "sleep"

\* The body of wait_for_transaction's loop after the poll's await: err is
\* the error of get_account_transaction ("" for Ok), maybe_txn and
\* timestamp_usecs the parts of its response.  "sleep" goes on to the sleep
\* and the next iteration; anything else is returned.
WaitPollOutcome(expiration_time_secs, txn_hash, err, maybe_txn, timestamp_usecs) ==
    IF err # "" THEN "GetTransactionError"
    ELSE IF maybe_txn # NoTxn
         THEN IF maybe_txn # txn_hash THEN "HashMismatch" ELSE "Ok"
    ELSE IF expiration_time_secs <= timestamp_usecs \div UsecsPerSec THEN "Expired"
    ELSE "sleep"

\* wait_for_transaction that polls once more when the timeout is just reached.
WaitLoopHeadLate(elapsed, timeout) == elapsed <= UnwrapOr(timeout, DEFAULT_TIMEOUT)

\* The loop condition of wait_for_transaction.
WaitLoopHead(elapsed, timeout) == elapsed < UnwrapOr(timeout, DEFAULT_TIMEOUT)

\* ------------------------------------------- ledger info and signatures
HashLength == 32

\* CanonicalSerializer: encode_u64, encode_bytes (length-prefixed) and
\* encode_raw_bytes, as the items written to the output.
EncodeU64(n) == [enc |-> "u64", val |-> n]
EncodeBytes(h) == [enc |-> "bytes", len |-> HashLength, val |-> h]
EncodeRawBytes(h) == [enc |-> "raw", val |-> h]

\* LedgerInfo::new
LedgerInfoNew(version, transaction_accumulator_hash, consensus_data_hash, consensus_block_id, epoch_num, timestamp_usecs) ==
    [version |-> version,
     transaction_accumulator_hash |-> transaction_accumulator_hash,
     consensus_data_hash |-> consensus_data_hash,
     consensus_block_id |-> consensus_block_id,
     epoch_num |-> epoch_num,
     timestamp_usecs |-> timestamp_usecs]

\* is_zero that also takes the first real version for nominal.
IsZeroBelowTwo(ledger_info) == ledger_info.version <= 1

\* LedgerInfo::is_zero
IsZero(ledger_info) == ledger_info.version = 0

\* #[derive(Clone)] for LedgerInfo: a new value with every field copied.
LedgerInfoClone(ledger_info) ==
    LedgerInfoNew(ledger_info.version, ledger_info.transaction_accumulator_hash,
                  ledger_info.consensus_data_hash, ledger_info.consensus_block_id,
                  ledger_info.epoch_num, ledger_info.timestamp_usecs)

\* A serialization that leaves the timestamp out.
LedgerInfoSerializeNoTimestamp(ledger_info) ==
    <<EncodeU64(ledger_info.version),
      EncodeBytes(ledger_info.transaction_accumulator_hash),
      EncodeBytes(ledger_info.consensus_data_hash),
      EncodeBytes(ledger_info.consensus_block_id),
      EncodeU64(ledger_info.epoch_num)>>

\* impl CanonicalSerialize for LedgerInfo
LedgerInfoSerialize(ledger_info) ==
    <<EncodeU64(ledger_info.version),
      EncodeBytes(ledger_info.transaction_accumulator_hash),
      EncodeBytes(ledger_info.consensus_data_hash),
      EncodeBytes(ledger_info.consensus_block_id),
      EncodeU64(ledger_info.epoch_num),
      EncodeU64(ledger_info.timestamp_usecs)>>

\* impl CryptoHash for LedgerInfo (LedgerInfoHasher)
LedgerInfoHash(ledger_info) == Hash("LedgerInfo", LedgerInfoSerialize(ledger_info))

\* Validators are identified by their account address; each owns one key.
\* A signature is modelled by the key that made it and the hash it signs.
Addresses == {"a", "b", "c", "d"}
KeyOf(a) == <<"key", a>>
Sign(key, hash) == [key |-> key, hash |-> hash]
SigValid(sig, key, hash) == sig.key = key /\ sig.hash = hash

\* A validator set: its members, each with the key KeyOf and a voting power.
PowerOf(a) == IF a = "d" THEN 2 ELSE 1
RECURSIVE TotalPower(_)
TotalPower(S) ==
    IF S = {} THEN 0
    ELSE LET a == CHOOSE x \in S : TRUE IN PowerOf(a) + TotalPower(S \ {a})
QuorumThreshold(validators) == (2 * TotalPower(validators)) \div 3 + 1

\* The signers whose signature over hash is valid under the key the
\* validator set assigns to them.
ValidSigners(validators, hash, signatures) ==
    {a \in DOMAIN signatures \cap validators : SigValid(signatures[a], KeyOf(a), hash)}

\* A record is quorum-certified when the summed voting power of its valid
\* signers reaches the quorum threshold.
QuorumCertified(validators, hash, signatures) ==
    TotalPower(ValidSigners(validators, hash, signatures)) >= QuorumThreshold(validators)

\* ValidatorVerifier::batch_verify_aggregated_signature
BatchVerifyAggregatedSignature(validators, hash, signatures) ==
    IF QuorumCertified(validators, hash, signatures) THEN "Ok" ELSE "VerifyError"

\* LedgerInfoWithSignatures::new
LedgerInfoWithSignaturesNew(ledger_info, signatures) ==
    [exists |-> TRUE, ledger_info |-> ledger_info, signatures |-> signatures]

\* add_signature that replaces the signature a validator already has.
AddSignatureOverwrite(signatures, validator, signature) ==
    [a \in DOMAIN signatures \cup {validator} |->
        IF a = validator THEN signature ELSE signatures[a]]

\* LedgerInfoWithSignatures::add_signature: signatures.entry(v).or_insert(s)
AddSignature(signatures, validator, signature) ==
    IF validator \in DOMAIN signatures THEN signatures
    ELSE [a \in DOMAIN signatures \cup {validator} |->
            IF a = validator THEN signature ELSE signatures[a]]

\* verify that checks the signatures of a nominal ledger info too.
LedgerInfoWithSignaturesVerifyAll(self, validators) ==
    BatchVerifyAggregatedSignature(validators, LedgerInfoHash(self.ledger_info),
                                   self.signatures)

\* LedgerInfoWithSignatures::verify
LedgerInfoWithSignaturesVerify(self, validators) ==
    IF IsZero(self.ledger_info) THEN "Ok"
    ELSE BatchVerifyAggregatedSignature(validators, LedgerInfoHash(self.ledger_info),
                                        self.signatures)

\* ------------------------------------------------------------- vote msg
\* impl CanonicalSerialize for ExecutedState: state_id, then version.
ExecutedStateSerialize(executed_state) ==
    <<EncodeRawBytes(executed_state.state_id), EncodeU64(executed_state.version)>>

\* impl CanonicalSerialize for VoteMsgSerializer
VoteMsgSerialize(proposed_block_id, executed_state, round) ==
    <<EncodeRawBytes(proposed_block_id)>>
        \o ExecutedStateSerialize(executed_state)
        \o <<EncodeU64(round)>>

\* VoteMsg::vote_digest: impl CryptoHash for VoteMsgSerializer (VoteMsgHasher)
VoteDigest(proposed_block_id, executed_state, round) ==
    Hash("VoteMsg", VoteMsgSerialize(proposed_block_id, executed_state, round))

\* VoteMsg::new that signs the placeholder as it was handed in.
VoteMsgNewKeepPlaceholder(proposed_block_id, executed_state, round, author, ledger_info_placeholder, signer_key) ==
    [proposed_block_id |-> proposed_block_id,
     executed_state |-> executed_state,
     round |-> round,
     author |-> author,
     ledger_info |-> ledger_info_placeholder,
     signature |-> Sign(signer_key, LedgerInfoHash(ledger_info_placeholder))]

\* VoteMsg::new: set the placeholder's consensus_data_hash to the vote
\* digest, sign the ledger info's hash, build the message.
VoteMsgNew(proposed_block_id, executed_state, round, author, ledger_info_placeholder, signer_key) ==
    LET ledger_info ==
            [ledger_info_placeholder EXCEPT
                !.consensus_data_hash = VoteDigest(proposed_block_id, executed_state, round)]
    IN  [proposed_block_id |-> proposed_block_id,
         executed_state |-> executed_state,
         round |-> round,
         author |-> author,
         ledger_info |-> ledger_info,
         signature |-> Sign(signer_key, LedgerInfoHash(ledger_info))]

\* ValidatorVerifier::verify_signature: a verifier maps each validator's
\* address to its public key; the author must be known and the signature
\* valid under the author's key.  "" is Ok.
VerifySignature(verifier, author, hash, signature) ==
    IF author \notin DOMAIN verifier THEN "UnknownAuthor"
    ELSE IF ~SigValid(signature, verifier[author], hash) THEN "InvalidSignature"
    ELSE ""

\* VoteMsg::vote_hash
VoteHash(self) == VoteDigest(self.proposed_block_id, self.executed_state, self.round)

\* verify that checks the consensus data hash but not the signature.
VoteMsgVerifySkipSignature(self, validator) ==
    IF self.ledger_info.consensus_data_hash # VoteHash(self)
    THEN [err |-> "ConsensusDataMismatch", cause |-> ""]
    ELSE [err |-> "", cause |-> ""]

\* verify that checks the signature before the consensus data hash.
VoteMsgVerifySignatureFirst(self, validator) ==
    LET e == VerifySignature(validator, self.author,
                             LedgerInfoHash(self.ledger_info), self.signature)
    IN  IF e # "" THEN [err |-> "SigVerifyError", cause |-> e]
        ELSE IF self.ledger_info.consensus_data_hash # VoteHash(self)
        THEN [err |-> "ConsensusDataMismatch", cause |-> ""]
        ELSE [err |-> "", cause |-> ""]

\* VoteMsg::verify: err = "" is Ok(()); a failed signature check is
\* SigVerifyError carrying the verifier's error (cause).
VoteMsgVerify(self, validator) ==
    IF self.ledger_info.consensus_data_hash # VoteHash(self)
    THEN [err |-> "ConsensusDataMismatch", cause |-> ""]
    ELSE LET e == VerifySignature(validator, self.author,
                                  LedgerInfoHash(self.ledger_info), self.signature)
         IN  IF e # "" THEN [err |-> "SigVerifyError", cause |-> e]
             ELSE [err |-> "", cause |-> ""]

\* ------------------------------------------ wait_for_signed_transaction
\* A SignedTransaction, by the fields the client reads from it.
Senders == {"a", "b"}
SequenceNumbers == {0, 1}
NoSignedTxn == [sender |-> "none", sequence_number |-> 0, expiration_timestamp_secs |-> 0]

\* The vm_status of a TransactionView; VMStatusView::is_executed.
VmStatuses == {"Executed", "OutOfGas"}
IsExecuted(vm_status) == vm_status = "Executed"

\* Transaction::UserTransaction(txn).hash(): the hash, in the Transaction
\* hasher's domain, of the enum variant wrapping the signed transaction.
TransactionHash(txn) == Hash("Transaction", <<"UserTransaction", txn>>)

\* The arguments wait_for_signed_transaction hands to wait_for_transaction.
WaitForSignedTransactionArgs(txn) ==
    [address |-> txn.sender,
     seq |-> txn.sequence_number,
     expiration_time_secs |-> txn.expiration_timestamp_secs,
     txn_hash |-> TransactionHash(txn)]

\* wait_for_signed_transaction that returns whatever the wait returned.
WaitForSignedTransactionIgnoreStatus(ret, vm_status) == ret

\* wait_for_signed_transaction after the wait's await: `?` hands on the
\* wait's error; a found transaction that did not execute is
\* TransactionExecutionFailed.
WaitForSignedTransaction(ret, vm_status) ==
    IF ret # "Ok" THEN ret
    ELSE IF ~IsExecuted(vm_status) THEN "TransactionExecutionFailed"
    ELSE "Ok"

\* ------------------------------------------------------- Yul functions
\* An EVM word is modelled by the set of the positions of its one bits
\* (position 0 is the lowest bit), so that words of 256 bits and numbers
\* beyond them are exact.
WORD_SIZE == 32
WordBits == 8 * WORD_SIZE
BitPositions == 0 .. (WordBits - 1)
Zero == {}
One == {0}

\* The numeric placeholders substituted into the emitted code.
MAX_U8 == 0 .. 7
MAX_U64 == 0 .. 63
MAX_U128 == 0 .. 127

\* The highest one bit of a number other than zero.
Top(a) == CHOOSE i \in a : \A j \in a : j <= i
\* a < b as numbers.
Less(a, b) ==
    LET d == (a \ b) \cup (b \ a) IN d # {} /\ Top(d) \in b
\* a * 2^n.
Shifted(a, n) == {i + n : i \in a}

\* Bits lo..hi of the exact sum a + b with carry c into bit lo, and the
\* carry out of bit hi (the range is halved until it is one bit).
RECURSIVE AddRange(_, _, _, _, _)
AddRange(a, b, lo, hi, c) ==
    IF lo = hi
    THEN LET s == (IF lo \in a THEN 1 ELSE 0) + (IF lo \in b THEN 1 ELSE 0) + c
         IN  [bits |-> IF s % 2 = 1 THEN {lo} ELSE {}, carry |-> s \div 2]
    ELSE LET mid == (lo + hi) \div 2
             low == AddRange(a, b, lo, mid, c)
             high == AddRange(a, b, mid + 1, hi, low.carry)
         IN  [bits |-> low.bits \cup high.bits, carry |-> high.carry]
\* The exact sum a + b.
Sum(a, b) ==
    IF a = {} THEN b ELSE IF b = {} THEN a
    ELSE LET top == IF Top(a) > Top(b) THEN Top(a) ELSE Top(b)
             r == AddRange(a, b, 0, top, 0)
         IN  r.bits \cup (IF r.carry = 1 THEN {top + 1} ELSE {})

\* Bits lo..hi of the exact difference a - b with borrow c from bit lo, and
\* the borrow from beyond bit hi.
RECURSIVE SubRange(_, _, _, _, _)
SubRange(a, b, lo, hi, c) ==
    IF lo = hi
    THEN LET s == (IF lo \in a THEN 1 ELSE 0) - (IF lo \in b THEN 1 ELSE 0) - c
         IN  [bits |-> IF s % 2 = 1 THEN {lo} ELSE {}, borrow |-> IF s < 0 THEN 1 ELSE 0]
    ELSE LET mid == (lo + hi) \div 2
             low == SubRange(a, b, lo, mid, c)
             high == SubRange(a, b, mid + 1, hi, low.borrow)
         IN  [bits |-> low.bits \cup high.bits, borrow |-> high.borrow]
\* The exact difference a - b for a >= b.
Difference(a, b) == IF b = {} THEN a ELSE SubRange(a, b, 0, Top(a), 0).bits

\* The exact product of b and the bits lo..hi of a: the sum of b shifted to
\* each one bit.
RECURSIVE MulRange(_, _, _, _)
MulRange(a, b, lo, hi) ==
    IF lo = hi THEN (IF lo \in a THEN Shifted(b, lo) ELSE {})
    ELSE LET mid == (lo + hi) \div 2
         IN  Sum(MulRange(a, b, lo, mid), MulRange(a, b, mid + 1, hi))
\* The exact product a * b.
Product(a, b) == IF a = {} \/ b = {} THEN {} ELSE MulRange(a, b, 0, Top(a))

\* Long division of a by b > 0 over the bits hi down to lo of a, entered
\* with the remainder r of the bits above hi: the quotient's bits hi..lo and
\* the remainder after bit lo.
RECURSIVE DivRange(_, _, _, _, _)
DivRange(a, b, hi, lo, r) ==
    IF lo = hi
    THEN LET r2 == Shifted(r, 1) \cup (IF lo \in a THEN {0} ELSE {})
         IN  IF Less(r2, b) THEN [q |-> {}, r |-> r2]
             ELSE [q |-> {lo}, r |-> Difference(r2, b)]
    ELSE LET mid == (lo + hi) \div 2
             high == DivRange(a, b, hi, mid + 1, r)
             low == DivRange(a, b, mid, lo, high.r)
         IN  [q |-> high.q \cup low.q, r |-> low.r]
\* The quotient a / b, rounded down, for b > 0.
Quotient(a, b) == IF a = {} THEN {} ELSE DivRange(a, b, Top(a), 0, {}).q

\* The number of a word used as a shift amount: its value when below 512,
\* and 512 (which shifts every bit out) otherwise.
RECURSIVE SmallValue(_)
SmallValue(a) ==
    IF a = {} THEN 0 ELSE LET i == Top(a) IN 2 ^ i + SmallValue(a \ {i})
ShiftAmount(a) == IF \E i \in a : i > 8 THEN 512 ELSE SmallValue(a)

\* The Yul builtins (EVM opcodes) the emitted functions use, on words:
\* arithmetic is modulo 2^256, div by zero is zero, comparisons give 1 or
\* 0, and shl(a, b) / shr(a, b) shift b by a bits.
EvmAdd(x, y) == Sum(x, y) \cap BitPositions
EvmSub(x, y) ==
    IF Less(x, y) THEN Difference(x \cup {WordBits}, y) \cap BitPositions
    ELSE Difference(x, y)
EvmMul(x, y) == Product(x, y) \cap BitPositions
EvmDiv(x, y) == IF y = Zero THEN Zero ELSE Quotient(x, y)
EvmLt(x, y) == IF Less(x, y) THEN One ELSE Zero
EvmGt(x, y) == IF Less(y, x) THEN One ELSE Zero
EvmOr(x, y) == x \cup y
EvmAnd(x, y) == x \cap y
EvmShl(a, b) == Shifted(b, ShiftAmount(a)) \cap BitPositions
EvmShr(a, b) == {i - ShiftAmount(a) : i \in {j \in b : j >= ShiftAmount(a)}}

\* What a call of an emitted function comes to: it returns r, or execution
\* reverts.  Abort: revert(0, 0); AbortBuiltin: $Abort(sub(0, 1)).
Return(r) == [reverted |-> FALSE, code |-> Zero, r |-> r]
Abort(code) == [reverted |-> TRUE, code |-> code, r |-> Zero]
AbortBuiltin == Abort(EvmSub(Zero, One))

\* The emitted checked additions and multiplications.
AddU64(x, y) ==
    IF EvmLt(EvmSub(MAX_U64, x), y) # Zero THEN AbortBuiltin
    ELSE Return(EvmAdd(x, y))
MulU64(x, y) ==
    IF EvmGt(y, EvmDiv(MAX_U64, x)) # Zero THEN AbortBuiltin
    ELSE Return(EvmMul(x, y))
AddU8(x, y) ==
    IF EvmLt(EvmSub(MAX_U8, x), y) # Zero THEN AbortBuiltin
    ELSE Return(EvmAdd(x, y))
MulU8(x, y) ==
    IF EvmGt(y, EvmDiv(MAX_U8, x)) # Zero THEN AbortBuiltin
    ELSE Return(EvmMul(x, y))
AddU128(x, y) ==
    IF EvmLt(EvmSub(MAX_U128, x), y) # Zero THEN AbortBuiltin
    ELSE Return(EvmAdd(x, y))
MulU128(x, y) ==
    IF EvmGt(y, EvmDiv(MAX_U128, x)) # Zero THEN AbortBuiltin
    ELSE Return(EvmMul(x, y))

\* The emitted pointer helpers.
\* MakePtr: ptr := or(is_storage, shl(offs, 1))
MakePtr(is_storage, offs) == EvmOr(is_storage, EvmShl(offs, One))
\* IsStoragePtr: b := and(ptr, 0x1)
IsStoragePtr(ptr) == EvmAnd(ptr, One)
\* OffsetPtr: offs := shr(ptr, 1)
OffsetPtr(ptr) == EvmShr(ptr, One)
\* IndexPtr: new_ptr := $MakePtr($IsStoragePtr(ptr), add($OffsetPtr(ptr), offs))
IndexPtr(ptr, offs) == MakePtr(IsStoragePtr(ptr), EvmAdd(OffsetPtr(ptr), offs))

\* ------------------------------------------------------------------ state
VARIABLES
    ts,         \* the store's in-memory TrustedState
    persisted,  \* the waypoint held by the storage adapter
    pc,         \* per task: "idle", "step_start", "step_wait", "batch_wait"
    op,         \* per task: the public call it is in ("none" when idle)
    snap,       \* per task: request_trusted_state of the request in flight
    nreq,       \* per task: number of user requests of the batch in flight
    inflight,   \* per task: the requests sent to the inner client, awaiting responses
    fulfilled,  \* per task: version its latest successful request was verified at
    maxOffered, \* greatest candidate ever handed to the store's ratchet
    maxAccepted,\* greatest of the initial state and the candidates stored with Ok
    last,       \* the latest return of a call (or of a step of sync)
    wait,       \* the wait_for_transaction call in progress or just returned
    liws,       \* a LedgerInfoWithSignatures object
    vres,       \* the latest LedgerInfoWithSignatures::verify: validators, result
    vote,       \* a VoteMsg, with the arguments it was built from
    yul         \* the latest call of an emitted Yul function, and the pointer made

vars == <<ts, persisted, pc, op, snap, nreq, inflight, fulfilled, maxOffered, maxAccepted, last,
          wait, liws, vres, vote, yul>>
\* The variables outside the verifying client's calls.
otherVars == <<wait, liws, vres, vote, yul>>
\* The variables of the ledger-info and vote objects and of the emitted code.
ledgerVars == <<liws, vres, vote, yul>>
\* The variables of the verifying client and its waiting call.
clientVars == <<ts, persisted, pc, op, snap, nreq, inflight, fulfilled, maxOffered, maxAccepted,
                last, wait>>

InitialState == TS(0, FALSE)

NoResult == [tick |-> 0, op |-> "none", ret |-> "none", step |-> "none",
             rret |-> "none", verr |-> "", more |-> FALSE, sent |-> FALSE, pinned |-> 0,
             cand |-> NoState, results |-> <<>>, kind |-> "none", latest |-> 0,
             input |-> <<>>, extra |-> NoSummary]

\* No wait_for_transaction call: its arguments, the wall-clock time since
\* start, the error or the transaction of its latest poll, and, once it
\* returned, its return value and the ledger timestamp of its last poll.
NoWait == [expiration_time_secs |-> 0, txn_hash |-> NoTxn, timeout |-> NoDuration,
           delay |-> NoDuration, elapsed |-> 0, ret |-> "none",
           err |-> "", maybe_txn |-> NoTxn, timestamp_usecs |-> 0,
           address |-> "none", seq |-> 0, vm_status |-> "none",
           signed |-> FALSE, txn |-> NoSignedTxn, outer |-> "none"]

\* No add_signature call on the object yet.
NoAdd == [validator |-> "none", signature |-> Sign(KeyOf("none"), RawHash(0))]

\* No LedgerInfoWithSignatures object yet, and no verify call yet.  Beside
\* the object's fields the record keeps, for each validator a signature was
\* ever supplied for (to new or to add_signature), the first one supplied,
\* and the arguments of the latest add_signature call when these are kept.
NoLiws == [exists |-> FALSE,
           ledger_info |-> LedgerInfoNew(0, RawHash(0), RawHash(0), RawHash(0), 0, 0),
           signatures |-> <<>>, first |-> <<>>, added |-> NoAdd]
NoVerify == [done |-> FALSE, validators |-> {}, ret |-> "none"]
\* No VoteMsg yet.
NoVote == [made |-> FALSE]
\* No pointer made yet, no call made yet.
NoPtr == [some |-> FALSE, is_storage |-> Zero, offs |-> Zero, value |-> Zero]
NoCall == [fn |-> "none", x |-> Zero, y |-> Zero, reverted |-> FALSE, code |-> Zero,
           r |-> Zero, ptr |-> NoPtr]

\* VerifyingClient::new: the store starts from the state the storage holds.
Init ==
    /\ ts = InitialState
    /\ persisted = Waypoint(InitialState)
    /\ pc = [t \in Tasks |-> "idle"]
    /\ op = [t \in Tasks |-> "none"]
    /\ snap = [t \in Tasks |-> NoState]
    /\ nreq = [t \in Tasks |-> 0]
    /\ inflight = [t \in Tasks |-> <<>>]
    /\ fulfilled = [t \in Tasks |-> 0]
    /\ maxOffered = NoState
    /\ maxAccepted = InitialState
    /\ last = NoResult
    /\ wait = NoWait
    /\ liws = NoLiws
    /\ vres = NoVerify
    /\ vote = NoVote
    /\ yul = NoCall

\* What a specification records about the calls, besides the program's own
\* state: "hist" keeps the per-task and per-store histories, "race" keeps the
\* candidate and the ratchet's return value (rret) of every call that handed
\* a candidate to ratchet, "full" keeps the whole return of every call, "io"
\* keeps it together with the response a sync step or a batch received,
\* "proof" keeps the return (without a batch's results) and the state proof
\* of the response.
Observe(obs, t, rec, okVersion) ==
    /\ last' = IF obs = "io" THEN [rec EXCEPT !.tick = 1 - last.tick]
               ELSE IF obs = "full"
               THEN [rec EXCEPT !.tick = 1 - last.tick, !.input = <<>>,
                                !.extra = NoSummary]
               ELSE IF obs = "proof"
               THEN [rec EXCEPT !.tick = 1 - last.tick, !.results = <<>>,
                                !.extra = NoSummary,
                                !.input = IF rec.sent /\ rec.ret # "Cancelled"
                                          THEN [proof |-> rec.input.proof] ELSE <<>>]
               ELSE IF obs = "race" /\ rec.cand # NoState
               THEN [NoResult EXCEPT !.tick = 1 - last.tick, !.op = "ratchet",
                                     !.cand = rec.cand, !.rret = rec.rret]
               ELSE last
    /\ fulfilled' = IF obs = "hist" /\ okVersion >= 0
                    THEN [fulfilled EXCEPT ![t] = okVersion] ELSE fulfilled
    /\ maxOffered' = IF obs = "hist" /\ rec.cand # NoState
                     THEN LexMax(maxOffered, rec.cand) ELSE maxOffered
    /\ maxAccepted' = IF obs = "hist" /\ rec.cand # NoState /\ rec.rret = "Ok"
                      THEN LexMax(maxAccepted, rec.cand) ELSE maxAccepted

\* The version of the trusted state a request was verified against.
VerifiedAt(request_trusted_state, cand) ==
    IF cand # NoState THEN cand.version ELSE request_trusted_state.version

\* ---------------------------------------------------------------- inputs
\* State proofs a node can answer with when its state block says version s:
\* the latest ledger info matches the state block.
ProofsAt(s) == {p \in Proofs : p.latest = s /\ (p.defect # "none" => ~p.more)}
OtherVersion(s) == (s + 1) % (MaxVersion + 1)
GoodProofAt(s) == [latest |-> s, more |-> FALSE, defect |-> "none"]

\* Responses to a step's request(s).  Without the bootstrap request the
\* fields of the consistency-proof response are not read and are fixed.
StepInputs(need_initial_accumulator) ==
    {[transport |-> TRUE, state1 |-> 0, state2 |-> 0, conOk |-> TRUE,
      proof |-> GoodProofAt(0)]}
    \cup UNION {{[transport |-> FALSE, state1 |-> s, state2 |-> s, conOk |-> TRUE,
                  proof |-> p] : p \in ProofsAt(s) \cup {GoodProofAt(OtherVersion(s))}} :
                s \in Versions}
    \cup (IF need_initial_accumulator
          THEN UNION {{[transport |-> FALSE, state1 |-> s1, state2 |-> s, conOk |-> c,
                        proof |-> GoodProofAt(s)] :
                          s1 \in {s, OtherVersion(s)}, c \in BOOLEAN} : s \in Versions}
          ELSE {})

\* Sub-responses to one user request of a batch whose state-proof response
\* says version s: a good one, one whose proof does not verify, one whose
\* proof is rooted below the pinned version.
ElemInputs(s, pinned) ==
    {[state |-> s, pv |-> s, ok |-> TRUE],
     [state |-> s, pv |-> s, ok |-> FALSE]}
    \cup {[state |-> s, pv |-> p, ok |-> TRUE] : p \in {pinned - 1} \cap Versions}

GoodElem(s) == [state |-> s, pv |-> s, ok |-> TRUE]

\* Responses to a batch of n user requests pinned at version pinned: a
\* transport failure; a valid state proof with any sub-responses; one
\* sub-response with a state block of its own; a defective state proof; a
\* state proof whose latest ledger info is at another version.
BatchInputs(n, pinned) ==
    {[transport |-> TRUE, spState |-> 0, proof |-> GoodProofAt(0),
      elems |-> [i \in 1..n |-> GoodElem(0)]]}
    \cup UNION {{[transport |-> FALSE, spState |-> s, proof |-> p, elems |-> e] :
                    p \in {q \in ProofsAt(s) : q.defect = "none"},
                    e \in [1..n -> ElemInputs(s, pinned)]} : s \in Versions}
    \cup UNION {{[transport |-> FALSE, spState |-> s, proof |-> GoodProofAt(s),
                  elems |-> [i \in 1..n |-> IF i = k THEN GoodElem(OtherVersion(s))
                                            ELSE GoodElem(s)]] :
                    k \in 1..n} : s \in Versions}
    \cup UNION {{[transport |-> FALSE, spState |-> s, proof |-> p,
                  elems |-> [i \in 1..n |-> GoodElem(s)]] :
                    p \in {q \in ProofsAt(s) : q.defect # "none"}
                          \cup {GoodProofAt(OtherVersion(s))}} : s \in Versions}

\* State proofs handed to a direct verify_and_ratchet call.
DirectProofs == {p \in Proofs : p.defect # "none" => ~p.more}

\* ---------------------------------------------------------------- actions
\* A task calls ratchet(new_state) directly.
Ratchet(t, obs) ==
    /\ pc[t] = "idle"
    /\ \E new_state \in {NoState} \cup {TS(v, TRUE) : v \in Versions},
          storageOk \in BOOLEAN :
          LET r == ClientRatchet(ts, persisted, new_state, storageOk)
          IN  /\ ts' = r.ts
              /\ persisted' = r.persisted
              /\ Observe(obs, t, [NoResult EXCEPT !.op = "ratchet", !.ret = r.ret,
                                                  !.rret = r.ret,
                                                  !.cand = new_state], -1)
    /\ UNCHANGED <<pc, op, snap, nreq, inflight>>

\* A task calls verify_and_ratchet(request_trusted_state, proof, acc) directly,
\* with a trusted state the store has held or holds.
VerifyAndRatchet(t, obs) ==
    /\ pc[t] = "idle"
    /\ \E old \in {s \in ChainStates : LexLE(s, ts) /\ (s.acc \/ s = InitialState)},
          proof \in DirectProofs, storageOk \in BOOLEAN :
       \E extra \in IF old.acc THEN {FALSE} ELSE BOOLEAN :
          LET r == ClientVerifyAndRatchet(ts, persisted, old, proof, extra, storageOk)
          IN  /\ ts' = r.ts
              /\ persisted' = r.persisted
              /\ Observe(obs, t, [NoResult EXCEPT !.op = "verify_and_ratchet",
                                                  !.ret = r.ret, !.verr = r.verr,
                                                  !.rret = IF r.verr = "" THEN r.ret
                                                           ELSE "none",
                                                  !.more = proof.more,
                                                  !.pinned = old.version,
                                                  !.kind = r.kind,
                                                  !.latest = proof.latest,
                                                  !.input = [old |-> old, proof |-> proof,
                                                             extra |-> extra],
                                                  !.cand = r.cand], -1)
    /\ UNCHANGED <<pc, op, snap, nreq, inflight>>

\* A task calls sync() or sync_one_step(): it stands before a step.
SyncCall(t) ==
    /\ pc[t] = "idle"
    /\ \E o \in {"sync", "sync_one_step"} : op' = [op EXCEPT ![t] = o]
    /\ pc' = [pc EXCEPT ![t] = "step_start"]
    /\ UNCHANGED <<ts, persisted, snap, nreq, inflight, fulfilled, maxOffered, maxAccepted, last>>

\* sync_one_step up to its await: clone the trusted state, send the request.
StepStart(t) ==
    /\ pc[t] = "step_start"
    /\ snap' = [snap EXCEPT ![t] = ts]
    /\ inflight' = [inflight EXCEPT ![t] = StepRequests(ts.version, ~ts.acc)]
    /\ pc' = [pc EXCEPT ![t] = "step_wait"]
    /\ UNCHANGED <<ts, persisted, op, nreq, fulfilled, maxOffered, maxAccepted, last>>

\* sync_one_step from its await to its return, and the loop of sync around it.
StepComplete(t, obs) ==
    /\ pc[t] = "step_wait"
    /\ \E resp \in StepInputs(~snap[t].acc), storageOk \in BOOLEAN :
          LET r == SyncOneStep(ts, persisted, snap[t], resp, storageOk)
              ok == r.step \in {"OkTrue", "OkFalse"}
              loop == IF op[t] = "sync" THEN SyncLoop(r.step)
                      ELSE [next |-> "idle", ret |-> r.step]
          IN  /\ ts' = r.ts
              /\ persisted' = r.persisted
              /\ pc' = [pc EXCEPT ![t] = loop.next]
              /\ op' = [op EXCEPT ![t] = IF loop.next = "idle" THEN "none" ELSE @]
              /\ Observe(obs, t,
                         [NoResult EXCEPT !.op = op[t], !.ret = loop.ret, !.step = r.step,
                                          !.verr = r.verr, !.rret = r.rret,
                                          !.more = ~resp.transport /\ resp.proof.more,
                                          !.sent = TRUE, !.pinned = snap[t].version,
                                          !.cand = r.cand, !.input = resp,
                                          !.extra = r.extra],
                         IF ok THEN VerifiedAt(snap[t], r.cand) ELSE -1)
    /\ snap' = [snap EXCEPT ![t] = NoState]
    /\ inflight' = [inflight EXCEPT ![t] = <<>>]
    /\ UNCHANGED nreq

\* batch up to its await: clone the trusted state, apply the bootstrap gate,
\* send the sub-requests pinned to the snapshot's version.
BatchCall(t, obs) ==
    /\ pc[t] = "idle"
    /\ \E n \in 1..MaxBatch :
          IF BatchGate(ts) # ""
          THEN /\ Observe(obs, t, [NoResult EXCEPT !.op = "batch", !.ret = BatchGate(ts),
                                                   !.pinned = ts.version], -1)
               /\ UNCHANGED <<ts, persisted, pc, op, snap, nreq, inflight>>
          ELSE /\ pc' = [pc EXCEPT ![t] = "batch_wait"]
               /\ op' = [op EXCEPT ![t] = "batch"]
               /\ snap' = [snap EXCEPT ![t] = ts]
               /\ nreq' = [nreq EXCEPT ![t] = n]
               /\ inflight' = [inflight EXCEPT ![t] = CollectRequests(n, ts.version)]
               /\ UNCHANGED <<ts, persisted, fulfilled, maxOffered, maxAccepted, last>>

\* batch from its await to its return.
BatchComplete(t, obs) ==
    /\ pc[t] = "batch_wait"
    /\ \E x \in BatchInputs(nreq[t], snap[t].version), storageOk \in BOOLEAN :
          LET r == BatchFinish(ts, persisted, snap[t], x.transport, x.spState, x.proof,
                               x.elems, storageOk)
          IN  /\ ts' = r.ts
              /\ persisted' = r.persisted
              /\ Observe(obs, t,
                         [NoResult EXCEPT !.op = "batch", !.ret = r.ret, !.verr = r.verr,
                                          !.rret = r.rret, !.sent = TRUE, !.pinned = snap[t].version,
                                          !.cand = r.cand, !.results = r.results,
                                          !.input = x],
                         IF r.ret = "Ok" THEN VerifiedAt(snap[t], r.cand) ELSE -1)
    /\ pc' = [pc EXCEPT ![t] = "idle"]
    /\ op' = [op EXCEPT ![t] = "none"]
    /\ snap' = [snap EXCEPT ![t] = NoState]
    /\ nreq' = [nreq EXCEPT ![t] = 0]
    /\ inflight' = [inflight EXCEPT ![t] = <<>>]

\* An async call is dropped at its suspension point.
Cancel(t, obs) ==
    /\ pc[t] \in {"step_wait", "batch_wait"}
    /\ Observe(obs, t, [NoResult EXCEPT !.op = op[t], !.ret = "Cancelled", !.sent = TRUE,
                                        !.pinned = snap[t].version], -1)
    /\ pc' = [pc EXCEPT ![t] = "idle"]
    /\ op' = [op EXCEPT ![t] = "none"]
    /\ snap' = [snap EXCEPT ![t] = NoState]
    /\ nreq' = [nreq EXCEPT ![t] = 0]
    /\ inflight' = [inflight EXCEPT ![t] = <<>>]
    /\ UNCHANGED <<ts, persisted>>

\* --------------------------------------------- wait_for_transaction steps
\* Arguments of the calls: expirations in seconds, Option<Duration>s.
Expirations == {1, 2}
Timeouts == {NoDuration, SomeDuration(0), SomeDuration(150)}
\* Arguments of wait_for_signed_transaction: the signed transaction and a
\* timeout.
SignedTransactions ==
    [sender : Senders, sequence_number : SequenceNumbers,
     expiration_timestamp_secs : Expirations]
SignedTimeouts == {SomeDuration(0), SomeDuration(150)}
Delays == {NoDuration, SomeDuration(100)}
\* Ledger timestamps around the expirations, and how long a poll may take.
Timestamps == {999999, 1000000, 1000001, 1999999, 2000000}
RpcTimes == {0, 50}

\* Responses to a poll pinned at version pinned: a transport failure, a state
\* proof that does not verify, a sub-response whose proof does not verify,
\* and verified responses carrying a transaction or none, each with any of
\* the ledger timestamps; a transaction comes with one of statuses as its
\* vm_status.
WaitInputs(pinned, txn_hash, statuses) ==
    LET blank(s, p, e) == [transport |-> FALSE, spState |-> s, proof |-> p, elem |-> e,
                           maybe_txn |-> NoTxn, timestamp_usecs |-> 0,
                           vm_status |-> "none"]
    IN  {[blank(0, GoodProofAt(0), GoodElem(0)) EXCEPT !.transport = TRUE],
         blank(pinned, [GoodProofAt(pinned) EXCEPT !.defect = "sig"], GoodElem(pinned)),
         blank(pinned, GoodProofAt(pinned), [GoodElem(pinned) EXCEPT !.ok = FALSE])}
        \cup UNION {{[blank(s, GoodProofAt(s), GoodElem(s))
                        EXCEPT !.maybe_txn = m, !.timestamp_usecs = u,
                               !.vm_status = IF m = NoTxn THEN "none" ELSE v] :
                        m \in {txn_hash, OtherHash, NoTxn}, u \in Timestamps,
                        v \in statuses} :
                    s \in {pinned, pinned + 1} \cap Versions}

\* The vm_status values the polls' transactions are given: every one for a
\* call of wait_for_signed_transaction, which reads it; one for a direct
\* call of wait_for_transaction, which never does.
PollStatuses(signed) == IF signed THEN VmStatuses ELSE {"Executed"}

\* The call returns: when it was made by wait_for_signed_transaction, that
\* function goes on from its await to its own return.
WaitReturn(w) ==
    IF w.signed /\ w.ret # "none"
    THEN [w EXCEPT !.outer = WaitForSignedTransaction(w.ret, w.vm_status)]
    ELSE w

\* wait_for_transaction is called: start = Instant::now().
WaitCall(t) ==
    /\ pc[t] = "idle"
    /\ \E e \in Expirations, to \in Timeouts, dl \in Delays :
          wait' = [NoWait EXCEPT !.address = "a", !.seq = 0,
                                 !.expiration_time_secs = e, !.txn_hash = RawHash(1),
                                 !.timeout = to, !.delay = dl]
    /\ pc' = [pc EXCEPT ![t] = "wait_loop"]
    /\ op' = [op EXCEPT ![t] = "wait_for_transaction"]
    /\ UNCHANGED <<ts, persisted, snap, nreq, inflight, fulfilled, maxOffered, maxAccepted, last>>

\* wait_for_signed_transaction is called: it calls wait_for_transaction with
\* arguments taken from txn.
WaitSignedCall(t) ==
    /\ pc[t] = "idle"
    /\ \E txn \in SignedTransactions, to \in SignedTimeouts, dl \in Delays :
          LET args == WaitForSignedTransactionArgs(txn)
          IN  wait' = [NoWait EXCEPT !.signed = TRUE, !.txn = txn,
                                     !.address = args.address, !.seq = args.seq,
                                     !.expiration_time_secs = args.expiration_time_secs,
                                     !.txn_hash = args.txn_hash,
                                     !.timeout = to, !.delay = dl]
    /\ pc' = [pc EXCEPT ![t] = "wait_loop"]
    /\ op' = [op EXCEPT ![t] = "wait_for_signed_transaction"]
    /\ UNCHANGED <<ts, persisted, snap, nreq, inflight, fulfilled, maxOffered, maxAccepted, last>>

\* The loop head: past the timeout the call returns Timeout; otherwise it
\* polls get_account_transaction, which is request -> batch up to its await
\* (the bootstrap gate refuses at once).
WaitLoop(t) ==
    /\ pc[t] = "wait_loop"
    /\ IF ~WaitLoopHead(wait.elapsed, wait.timeout)
       THEN /\ wait' = WaitReturn([wait EXCEPT !.ret = "Timeout"])
            /\ pc' = [pc EXCEPT ![t] = "idle"]
            /\ op' = [op EXCEPT ![t] = "none"]
            /\ UNCHANGED <<snap, nreq, inflight>>
       ELSE IF BatchGate(ts) # ""
       THEN /\ wait' = WaitReturn([wait EXCEPT !.err = Request(BatchGate(ts), <<>>),
                                    !.ret = WaitPollOutcome(wait.expiration_time_secs,
                                                wait.txn_hash,
                                                Request(BatchGate(ts), <<>>), NoTxn, 0)])
            /\ pc' = [pc EXCEPT ![t] = "idle"]
            /\ op' = [op EXCEPT ![t] = "none"]
            /\ UNCHANGED <<snap, nreq, inflight>>
       ELSE /\ pc' = [pc EXCEPT ![t] = "wait_poll"]
            /\ snap' = [snap EXCEPT ![t] = ts]
            /\ nreq' = [nreq EXCEPT ![t] = 1]
            /\ inflight' = [inflight EXCEPT ![t] = CollectRequests(1, ts.version)]
            /\ UNCHANGED <<op, wait>>
    /\ UNCHANGED <<ts, persisted, fulfilled, maxOffered, maxAccepted, last>>

\* The poll returns: batch after its await, request, then the loop body.
WaitPoll(t) ==
    /\ pc[t] = "wait_poll"
    /\ \E x \in WaitInputs(snap[t].version, wait.txn_hash, PollStatuses(wait.signed)),
          storageOk \in BOOLEAN, d \in RpcTimes :
          LET b == BatchFinish(ts, persisted, snap[t], x.transport, x.spState, x.proof,
                               <<x.elem>>, storageOk)
              err == Request(b.ret, b.results)
              out == WaitPollOutcome(wait.expiration_time_secs, wait.txn_hash, err,
                                     x.maybe_txn, x.timestamp_usecs)
          IN  /\ ts' = b.ts
              /\ persisted' = b.persisted
              /\ wait' = WaitReturn([wait EXCEPT
                            !.elapsed = @ + d,
                            !.ret = IF out = "sleep" THEN "none" ELSE out,
                            !.err = err,
                            !.maybe_txn = IF err = "" THEN x.maybe_txn ELSE NoTxn,
                            !.vm_status = IF err = "" THEN x.vm_status ELSE "none",
                            !.timestamp_usecs = IF err = "" /\ out # "sleep"
                                                THEN x.timestamp_usecs ELSE 0])
              /\ pc' = [pc EXCEPT ![t] = IF out = "sleep" THEN "wait_sleep" ELSE "idle"]
              /\ op' = [op EXCEPT ![t] = IF out = "sleep" THEN @ ELSE "none"]
    /\ snap' = [snap EXCEPT ![t] = NoState]
    /\ nreq' = [nreq EXCEPT ![t] = 0]
    /\ inflight' = [inflight EXCEPT ![t] = <<>>]
    /\ UNCHANGED <<fulfilled, maxOffered, maxAccepted, last>>

\* tokio::time::sleep(delay) elapses.
WaitSleep(t) ==
    /\ pc[t] = "wait_sleep"
    /\ wait' = [wait EXCEPT !.elapsed = @ + UnwrapOr(wait.delay, DEFAULT_DELAY)]
    /\ pc' = [pc EXCEPT ![t] = "wait_loop"]
    /\ UNCHANGED <<ts, persisted, op, snap, nreq, inflight, fulfilled, maxOffered, maxAccepted, last>>

WaitStep(t) == WaitLoop(t) \/ WaitPoll(t) \/ WaitSleep(t)

\* --------------------------------------------------- ledger info actions
\* Ledger infos handed to the constructors: any version, either of two
\* consensus data hashes and epochs.
LedgerInfos ==
    {LedgerInfoNew(v, RawHash(1), RawHash(c), RawHash(1), e, 0) :
        v \in Versions, c \in {1, 2}, e \in {1, 2}}

\* Signatures an address can contribute for ledger_info: its own over the
\* ledger info's hash, one made with another key, one over another hash.
GoodSig(a, ledger_info) == Sign(KeyOf(a), LedgerInfoHash(ledger_info))
BadSigs(a, ledger_info) ==
    {Sign(KeyOf("other"), LedgerInfoHash(ledger_info)),
     Sign(KeyOf(a), LedgerInfoHash([ledger_info EXCEPT !.version = @ + 1]))}
\* Signature maps handed to the constructor: per address nothing, its good
\* signature, or a signature made with another key.
SignatureMaps ==
    UNION {[S -> {"good", "bad"}] : S \in SUBSET Addresses}
ResolveSignatures(m, ledger_info) ==
    [a \in DOMAIN m |-> IF m[a] = "good" THEN GoodSig(a, ledger_info)
                        ELSE Sign(KeyOf("other"), LedgerInfoHash(ledger_info))]
ValidatorSets == (SUBSET Addresses) \ {{}}

\* LedgerInfoWithSignatures::new(ledger_info, signatures)
LiwsNew ==
    /\ ~liws.exists
    /\ \E ledger_info \in LedgerInfos :
       \E m \in SignatureMaps :
          LET self == LedgerInfoWithSignaturesNew(ledger_info,
                                                  ResolveSignatures(m, ledger_info))
          IN  liws' = [exists |-> self.exists, ledger_info |-> self.ledger_info,
                       signatures |-> self.signatures, first |-> self.signatures,
                       added |-> NoAdd]
    /\ UNCHANGED vres

\* add_signature(validator, signature); keep says whether the call's
\* arguments are kept in the record.
LiwsAddSignature(keep) ==
    /\ liws.exists
    /\ \E validator \in Addresses :
       \E signature \in {GoodSig(validator, liws.ledger_info)}
                          \cup BadSigs(validator, liws.ledger_info) :
          liws' = [liws EXCEPT
                     !.signatures = AddSignature(@, validator, signature),
                     !.first = IF validator \in DOMAIN @ THEN @
                               ELSE [a \in DOMAIN @ \cup {validator} |->
                                       IF a = validator THEN signature ELSE @[a]],
                     !.added = IF keep
                               THEN [validator |-> validator, signature |-> signature]
                               ELSE @]
    /\ UNCHANGED vres

\* verify(validator)
LiwsVerify ==
    /\ liws.exists
    /\ \E validators \in ValidatorSets :
          vres' = [done |-> TRUE, validators |-> validators,
                   ret |-> LedgerInfoWithSignaturesVerify(liws, validators)]
    /\ UNCHANGED liws

\* -------------------------------------------------------- vote msg actions
Rounds == 0..MaxRound
BlockIds == {RawHash(1), RawHash(2)}
ExecutedStates == [state_id : {RawHash(1), RawHash(2)}, version : Versions]
\* Placeholder ledger infos handed to VoteMsg::new.
Placeholders ==
    {LedgerInfoNew(v, RawHash(t), RawHash(c), RawHash(3), e, 5) :
        v \in Versions, t \in {1, 2}, c \in {1, 2}, e \in {1, 2}}
Authors == {"a", "b"}

\* No verify call on the vote yet.
NoVoteVerify == [done |-> FALSE, validator |-> <<>>, err |-> "", cause |-> ""]

\* A vote is built with VoteMsg::new: the author is an argument of its own,
\* the signer holds the key of the validator named signer.
VoteNew ==
    /\ ~vote.made
    /\ \E proposed_block_id \in BlockIds, executed_state \in ExecutedStates,
          round \in Rounds, author \in Authors, signer \in Authors,
          ledger_info_placeholder \in Placeholders :
          LET msg == VoteMsgNew(proposed_block_id, executed_state, round, author,
                                ledger_info_placeholder, KeyOf(signer))
          IN  vote' = [made |-> TRUE,
                       msg |-> msg,
                       proposed_block_id |-> proposed_block_id,
                       executed_state |-> executed_state,
                       round |-> round,
                       placeholder |-> ledger_info_placeholder,
                       signer |-> signer,
                       received |-> msg,
                       changed |-> FALSE,
                       verify |-> NoVoteVerify]

\* Ledger infos that differ from ledger_info in one field.
LedgerInfoChanges(ledger_info, placeholder) ==
    {[ledger_info EXCEPT !.version = @ + 1],
     [ledger_info EXCEPT !.transaction_accumulator_hash = RawHash(3)],
     [ledger_info EXCEPT !.consensus_data_hash = placeholder.consensus_data_hash],
     [ledger_info EXCEPT !.consensus_block_id = RawHash(4)],
     [ledger_info EXCEPT !.epoch_num = @ + 1],
     [ledger_info EXCEPT !.timestamp_usecs = @ + 1]}

\* Signatures for a vote carrying ledger_info: the signer's or another key's
\* over its hash, and the signer's over the placeholder's hash.
SignatureChoices(signer, ledger_info, placeholder) ==
    {Sign(KeyOf(signer), LedgerInfoHash(ledger_info)),
     Sign(KeyOf("other"), LedgerInfoHash(ledger_info)),
     Sign(KeyOf(signer), LedgerInfoHash(placeholder))}

\* The vote arrives with another ledger_info, another signature, or both
\* (VoteMsg::from_proto builds the message from whatever fields it is given).
VoteChange ==
    /\ vote.made
    /\ ~vote.changed
    /\ ~vote.verify.done
    /\ \E ledger_info \in {vote.msg.ledger_info}
                            \cup LedgerInfoChanges(vote.msg.ledger_info, vote.placeholder) :
       \E signature \in {vote.msg.signature}
                          \cup SignatureChoices(vote.signer, ledger_info, vote.placeholder) :
          /\ <<ledger_info, signature>> # <<vote.msg.ledger_info, vote.msg.signature>>
          /\ vote' = [vote EXCEPT !.changed = TRUE,
                                  !.received = [vote.msg EXCEPT !.ledger_info = ledger_info,
                                                                !.signature = signature]]

\* Verifiers handed to verify: the signer alone with its key, all authors
\* with their keys, the signer alone with another key.
VoteVerifiers(signer) ==
    {[a \in {signer} |-> KeyOf(a)],
     [a \in Authors |-> KeyOf(a)],
     [a \in {signer} |-> KeyOf("other")]}

\* verify(validator) on the vote as received.
VoteVerify ==
    /\ vote.made
    /\ ~vote.verify.done
    /\ \E validator \in VoteVerifiers(vote.signer) :
          LET r == VoteMsgVerify(vote.received, validator)
          IN  vote' = [vote EXCEPT !.verify = [done |-> TRUE, validator |-> validator,
                                               err |-> r.err, cause |-> r.cause]]

\* --------------------------------------------------------- specifications
\* Every call of every task, in any interleaving.
Next ==
    /\ \E t \in Tasks :
           \/ Ratchet(t, "hist")
           \/ VerifyAndRatchet(t, "hist")
           \/ SyncCall(t)
           \/ StepStart(t)
           \/ StepComplete(t, "hist")
           \/ BatchCall(t, "hist")
           \/ BatchComplete(t, "hist")
           \/ Cancel(t, "hist")
    /\ UNCHANGED otherVars

Spec == Init /\ [][Next]_vars

\* The same, recording every call that reached the store's ratchet.
NextRace ==
    /\ \E t \in Tasks :
           \/ Ratchet(t, "race")
           \/ VerifyAndRatchet(t, "race")
           \/ SyncCall(t)
           \/ StepStart(t)
           \/ StepComplete(t, "race")
           \/ BatchCall(t, "race")
           \/ BatchComplete(t, "race")
           \/ Cancel(t, "race")
    /\ UNCHANGED otherVars

SpecRace == Init /\ [][NextRace]_vars

\* The calls one task issues serially, each return recorded in full.
NextSerial ==
    /\ \E t \in {"t1"} :
           \/ Ratchet(t, "full")
           \/ VerifyAndRatchet(t, "full")
           \/ SyncCall(t)
           \/ StepStart(t)
           \/ StepComplete(t, "full")
           \/ BatchCall(t, "full")
           \/ BatchComplete(t, "full")
           \/ Cancel(t, "full")
    /\ UNCHANGED otherVars

SpecSerial == Init /\ [][NextSerial]_vars

\* One task's syncs and batches, each return recorded with the response that
\* produced it.
NextIO ==
    /\ \E t \in {"t1"} :
           \/ Ratchet(t, "io")
           \/ SyncCall(t)
           \/ StepStart(t)
           \/ StepComplete(t, "io")
           \/ BatchCall(t, "io")
           \/ BatchComplete(t, "io")
    /\ UNCHANGED otherVars

SpecIO == Init /\ [][NextIO]_vars

\* One task's direct calls of verify_and_ratchet and ratchet, each return
\* recorded with the arguments of the call.
NextDirect ==
    /\ \E t \in {"t1"} :
           \/ Ratchet(t, "io")
           \/ VerifyAndRatchet(t, "io")
    /\ UNCHANGED otherVars

SpecDirect == Init /\ [][NextDirect]_vars

\* One task's syncs and batches, each return recorded with the state proof it
\* received, while another task ratchets the store.
NextRaceIO ==
    /\ \/ SyncCall("t1")
       \/ StepStart("t1")
       \/ StepComplete("t1", "proof")
       \/ BatchCall("t1", "proof")
       \/ BatchComplete("t1", "proof")
       \/ Ratchet("t2", "off")
    /\ UNCHANGED otherVars

SpecRaceIO == Init /\ [][NextRaceIO]_vars

\* One task in wait_for_transaction while another ratchets the store.  Every
\* RPC returns and every sleep ends: the waiting task's steps are fair.
NextWait ==
    /\ \/ WaitCall("t1")
       \/ WaitLoop("t1")
       \/ WaitPoll("t1")
       \/ WaitSleep("t1")
       \/ Ratchet("t2", "off") /\ UNCHANGED wait
    /\ UNCHANGED ledgerVars

\* wait_for_signed_transaction calls of one task while another task ratchets.
NextSigned ==
    /\ \/ WaitSignedCall("t1")
       \/ WaitLoop("t1")
       \/ WaitPoll("t1")
       \/ WaitSleep("t1")
       \/ Ratchet("t2", "off") /\ UNCHANGED wait
    /\ UNCHANGED ledgerVars

SpecSigned == Init /\ [][NextSigned]_vars

SpecWait == Init /\ [][NextWait]_vars /\ WF_vars(WaitStep("t1") /\ UNCHANGED ledgerVars)

\* A LedgerInfoWithSignatures is built, collects signatures and is verified
\* against validator sets.
NextLedger ==
    /\ \/ LiwsNew
       \/ LiwsAddSignature(FALSE)
       \/ LiwsVerify
    /\ UNCHANGED <<clientVars, vote, yul>>

SpecLedger == Init /\ [][NextLedger]_vars

\* A LedgerInfoWithSignatures is built and collects signatures, the
\* arguments of each add_signature call being kept.
NextSignatures ==
    /\ \/ LiwsNew
       \/ LiwsAddSignature(TRUE)
    /\ UNCHANGED <<clientVars, vote, yul>>

SpecSignatures == Init /\ [][NextSignatures]_vars

\* Votes are built, travel and are verified.
NextVote ==
    /\ \/ VoteNew
       \/ VoteChange
       \/ VoteVerify
    /\ UNCHANGED <<clientVars, liws, vres, yul>>

SpecVote == Init /\ [][NextVote]_vars

\* ------------------------------------------------ emitted Yul functions
\* Operands of the checked arithmetic: every u8; for u64 and u128 the
\* values around zero, around the middle of the range and around MAX.
U8Operands == SUBSET MAX_U8
U64Operands == {Zero, One, {1}, {0, 1}, {31}, 0 .. 31, {32}, {0, 32}, {63}, 1 .. 63, MAX_U64}
U128Operands ==
    {Zero, One, {1}, {0, 1}, 0 .. 63, {64}, {0, 64}, {127}, 1 .. 127, MAX_U128}
\* Offsets handed to MakePtr: 0, 1, 2, 3, 32, 64, 255, 256, 2^64 and the
\* greatest word.
Offsets == {Zero, One, {1}, {0, 1}, {5}, {6}, 0 .. 7, {8}, {64}, BitPositions}

\* A call fn(x, y) of a checked arithmetic function came to res.
Called(fn, x, y, res) ==
    [yul EXCEPT !.fn = fn, !.x = x, !.y = y, !.reverted = res.reverted,
                !.code = res.code, !.r = res.r]

\* One of the checked arithmetic functions is called on operands of its
\* type, each behaviour being one evaluation.
AddU8Call ==
    /\ yul.fn = "none"
    /\ \E x \in U8Operands, y \in U8Operands : yul' = Called("AddU8", x, y, AddU8(x, y))
MulU8Call ==
    /\ yul.fn = "none"
    /\ \E x \in U8Operands, y \in U8Operands : yul' = Called("MulU8", x, y, MulU8(x, y))
AddU64Call ==
    /\ yul.fn = "none"
    /\ \E x \in U64Operands, y \in U64Operands : yul' = Called("AddU64", x, y, AddU64(x, y))
MulU64Call ==
    /\ yul.fn = "none"
    /\ \E x \in U64Operands, y \in U64Operands : yul' = Called("MulU64", x, y, MulU64(x, y))
AddU128Call ==
    /\ yul.fn = "none"
    /\ \E x \in U128Operands, y \in U128Operands :
          yul' = Called("AddU128", x, y, AddU128(x, y))
MulU128Call ==
    /\ yul.fn = "none"
    /\ \E x \in U128Operands, y \in U128Operands :
          yul' = Called("MulU128", x, y, MulU128(x, y))

\* MakePtr(is_storage, offs) is called; the pointer is kept with the
\* arguments it was made from.
MakePtrCall ==
    /\ yul.fn = "none"
    /\ \E is_storage \in {Zero, One}, offs \in Offsets :
          LET ptr == MakePtr(is_storage, offs)
          IN  yul' = [Called("MakePtr", is_storage, offs, Return(ptr)) EXCEPT
                        !.ptr = [some |-> TRUE, is_storage |-> is_storage, offs |-> offs,
                                 value |-> ptr]]
\* IsStoragePtr and OffsetPtr are called on the pointer made.
IsStoragePtrCall ==
    /\ yul.fn \in {"MakePtr", "IndexPtr"}
    /\ yul.ptr.some
    /\ yul' = Called("IsStoragePtr", yul.ptr.value, Zero, Return(IsStoragePtr(yul.ptr.value)))
OffsetPtrCall ==
    /\ yul.fn \in {"MakePtr", "IndexPtr"}
    /\ yul.ptr.some
    /\ yul' = Called("OffsetPtr", yul.ptr.value, Zero, Return(OffsetPtr(yul.ptr.value)))
\* IndexPtr is called on the pointer made, giving the pointer to the offset
\* further on in the same kind of memory.
IndexPtrCall ==
    /\ yul.fn = "MakePtr"
    /\ yul.ptr.some
    /\ \E offs \in {One, {5}} :
          LET ptr == IndexPtr(yul.ptr.value, offs)
          IN  yul' = [Called("IndexPtr", yul.ptr.value, offs, Return(ptr)) EXCEPT
                        !.ptr = [some |-> TRUE, is_storage |-> yul.ptr.is_storage,
                                 offs |-> EvmAdd(yul.ptr.offs, offs), value |-> ptr]]

\* Calls of the emitted arithmetic and pointer functions.
NextYul ==
    /\ \/ AddU8Call
       \/ MulU8Call
       \/ AddU64Call
       \/ MulU64Call
       \/ AddU128Call
       \/ MulU128Call
       \/ MakePtrCall
       \/ IsStoragePtrCall
       \/ OffsetPtrCall
       \/ IndexPtrCall
    /\ UNCHANGED <<clientVars, liws, vres, vote>>

SpecYul == Init /\ [][NextYul]_vars

\* ----------------------------------------------------------------- claims
SameVersion(a, b) == a.epoch = b.epoch /\ a.version = b.version
Quiescent == \A t \in Tasks : pc[t] = "idle"
\* A call returned in this step (in SpecRace: a call that reached the
\* store's ratchet with a candidate).
ReturnedNow == last'.tick # last.tick

\* C1: a ratchet whose candidate's (epoch, version) is not above the store's
\* returns Ok and leaves the in-memory state and the persisted waypoint as
\* they were.
C1_LostRaceIsNoOp ==
    [][(ReturnedNow /\ LexLE(last'.cand, ts))
          => (last'.rret = "Ok" /\ ts' = ts /\ persisted' = persisted)]_vars

\* A call offered a candidate below the store's state and returned Ok.
C1_Witness ==
    /\ last.cand # NoState
    /\ LexLT(last.cand, ts)
    /\ last.rret = "Ok"

\* C2: under any interleaving of the calls, the store's (epoch, version)
\* never decreases from one state to the next.
C2_StoreMonotone ==
    [][/\ ts.epoch <= ts'.epoch
       /\ ts.epoch = ts'.epoch => ts.version <= ts'.version]_vars

\* The store has moved to the second epoch while both tasks have requests in
\* flight, one of them made from an older trusted state.
C2_Witness ==
    /\ ts.epoch = 2
    /\ pc["t1"] = "batch_wait"
    /\ pc["t2"] = "step_wait"
    /\ LexLT(snap["t1"], ts)

\* C3: a ratchet of a strictly newer candidate either stores it (memory and
\* persisted waypoint both advance, Ok) or, when the storage adapter fails,
\* returns StorageError with memory and waypoint untouched; memory is never
\* ahead of the persisted waypoint.
C3_StorageAllOrNothing ==
    [][(ReturnedNow /\ LexLT(ts, last'.cand))
          => /\ \/ last'.rret = "Ok" /\ ts' = last'.cand
                \/ last'.rret = "StorageError" /\ ts' = ts /\ persisted' = persisted
             /\ persisted' = Waypoint(ts')]_vars

\* A ratchet of a newer candidate failed on storage.
C3_Witness ==
    /\ last.rret = "StorageError"
    /\ LexLT(ts, last.cand)
    /\ persisted = Waypoint(ts)

C5_BatchConsistent ==
    (last.op = "batch" /\ last.ret = "Ok")
        => \A i \in DOMAIN last.results :
              last.results[i].kind = "Ok"
                  => /\ last.results[i].state >= last.pinned
                     /\ \A j \in DOMAIN last.results :
                           last.results[j].kind = "Ok"
                               => last.results[j].state = last.results[i].state

\* A batch pinned above version 0 returned an Ok entry and a stale one.
C5_Witness ==
    /\ last.op = "batch"
    /\ last.ret = "Ok"
    /\ last.pinned > 0
    /\ Len(last.results) = 2
    /\ last.results[1].kind = "Ok"
    /\ last.results[2].kind = "StaleResponse"

C7_Original ==
    [][ReturnedNow
          => /\ last'.rret = "Ok"
             /\ SameVersion(ts', LexMax(ts, last'.cand))]_vars

\* C7 amended: a call that offers a verified candidate returns Ok with the
\* store at the greater of its former state and the candidate, in whatever
\* order the calls take the lock, unless persisting a newer candidate fails:
\* then it returns StorageError and the store keeps its state.
C7_RaceOutcome ==
    [][ReturnedNow
          => \/ last'.rret = "Ok" /\ SameVersion(ts', LexMax(ts, last'.cand))
             \/ /\ last'.rret = "StorageError"
                /\ LexLT(ts, last'.cand)
                /\ ts' = ts]_vars

\* The loser of a race: a candidate below the store's state, offered by a
\* call made from an older state, returned Ok with the store above it.
C7_Witness ==
    /\ last.rret = "Ok"
    /\ last.cand # NoState
    /\ last.cand.version = 1
    /\ ts.version = 2

\* C8 as stated: once all calls have returned, the store is at the maximum
\* of the candidates offered.
C8_Original ==
    (Quiescent /\ maxOffered # NoState) => SameVersion(ts, maxOffered)

\* C8 amended: the store is at the maximum of its initial state and the
\* candidates whose ratchet returned Ok, whatever the order of the calls.
C8_StoreIsMaxAccepted ==
    SameVersion(ts, maxAccepted)

\* Candidates were offered and stored, and the greatest one offered was lost
\* to a storage failure.
C8_Witness ==
    /\ Quiescent
    /\ ts.version = 1
    /\ maxOffered # NoState
    /\ maxOffered.version = 2

\* C9: when the state proof does not verify, verify_and_ratchet and
\* sync_one_step (and sync around it) return InvalidProof and the store is
\* not written; the store changes only in calls whose proof verified.
C9_VerifyBeforeWrite ==
    [][(ReturnedNow /\ last'.op \in {"verify_and_ratchet", "sync_one_step", "sync"})
          => /\ last'.verr # ""
                => /\ last'.ret = "InvalidProof"
                   /\ last'.step \in {"none", "InvalidProof"}
                   /\ ts' = ts
                   /\ persisted' = persisted
             /\ ts' # ts => last'.verr = ""]_vars

\* A sync step received a state proof whose signatures do not reach quorum.
C9_Witness ==
    /\ last.op = "sync_one_step"
    /\ last.verr = "InvalidSignatures"
    /\ last.ret = "InvalidProof"
    /\ ts.acc

\* C10: sync issues another step exactly when the step returned Ok(true),
\* which is the more flag of the step's state proof; it returns Ok after a
\* step that returned Ok(false), and it returns a step's error at once.
C10_SyncLoop ==
    [][\A t \in Tasks :
          (pc[t] = "step_wait" /\ op[t] = "sync" /\ ReturnedNow /\ last'.ret # "Cancelled")
          => /\ last'.step = "OkTrue"
                => pc'[t] = "step_start" /\ last'.ret = "pending" /\ last'.more
             /\ last'.step = "OkFalse"
                => pc'[t] = "idle" /\ last'.ret = "Ok" /\ ~last'.more
             /\ last'.step \notin {"OkTrue", "OkFalse"}
                => pc'[t] = "idle" /\ last'.ret = last'.step]_vars

\* sync got Ok(true) from a step and has issued the next one.
C10_Witness ==
    /\ last.op = "sync"
    /\ last.step = "OkTrue"
    /\ last.ret = "pending"
    /\ pc["t1"] = "step_wait"
    /\ ts.acc

Waiting == pc["t1"] \in {"wait_loop", "wait_poll", "wait_sleep"}
WaitOutcomes == {"Ok", "HashMismatch", "Expired", "Timeout", "GetTransactionError"}

\* C12: wait_for_transaction returns Ok only from a poll that returned a
\* transaction with the expected hash, carrying that transaction; a poll
\* that returns a transaction with another hash makes it return
\* HashMismatch carrying that transaction; either poll is the last one.
C12_HashDecides ==
    [][/\ (wait.ret = "none" /\ wait'.ret = "Ok")
            => /\ pc["t1"] = "wait_poll"
               /\ wait'.err = ""
               /\ wait'.maybe_txn = wait.txn_hash
       /\ pc["t1"] = "wait_poll"
            => /\ (wait'.err = "" /\ wait'.maybe_txn = wait.txn_hash)
                    => (wait'.ret = "Ok" /\ pc'["t1"] = "idle")
               /\ (wait'.err = "" /\ wait'.maybe_txn \notin {NoTxn, wait.txn_hash})
                    => (wait'.ret = "HashMismatch" /\ pc'["t1"] = "idle")
       /\ (wait.ret = "none" /\ wait'.ret = "HashMismatch")
            => /\ pc["t1"] = "wait_poll"
               /\ wait'.maybe_txn \notin {NoTxn, wait.txn_hash}
       /\ Waiting => wait.ret = "none"]_vars

\* A poll after some sleeps returned a transaction with another hash.
C12_Witness ==
    /\ wait.ret = "HashMismatch"
    /\ wait.maybe_txn = RawHash(2)
    /\ wait.txn_hash = RawHash(1)
    /\ wait.elapsed > 0
    /\ pc["t1"] = "idle"

\* C13: wait_for_transaction returns Expired only when the poll found no
\* transaction and the ledger timestamp in seconds is greater than
\* expiration_secs; when they are equal it does not report Expired.
C13_ExpiredOnlyPast ==
    wait.ret = "Expired"
        => /\ wait.maybe_txn = NoTxn
           /\ wait.timestamp_usecs \div UsecsPerSec > wait.expiration_time_secs

\* C14: at the loop head, the call returns Timeout exactly when the elapsed
\* time has reached the timeout (5 s when none is given); a call returns at
\* most one of Ok, HashMismatch, Expired, Timeout or the request's error;
\* and every call returns.
C14_TimeoutAndTermination ==
    /\ [](wait.ret \in WaitOutcomes \cup {"none"})
    /\ [][/\ (pc["t1"] = "wait_loop" /\ pc'["t1"] # "wait_loop")
                => (wait.elapsed >= UnwrapOr(wait.timeout, DEFAULT_TIMEOUT)
                      <=> wait'.ret = "Timeout")
          /\ (wait.ret = "none" /\ wait'.ret = "Timeout") => pc["t1"] = "wait_loop"
          /\ (wait.ret # "none" /\ wait'.ret # wait.ret)
                => (wait'.ret = "none" /\ pc["t1"] = "idle")]_vars
    /\ (Waiting ~> (pc["t1"] = "idle" /\ wait.ret \in WaitOutcomes))

\* A call with the default timeout and delay polled for five seconds, slept
\* 50 ms between polls, and returned Timeout.
C14_Witness ==
    /\ wait.ret = "Timeout"
    /\ wait.timeout = NoDuration
    /\ wait.delay = NoDuration
    /\ wait.elapsed = DEFAULT_TIMEOUT
    /\ pc["t1"] = "idle"

\* A batch whose request was sent returned in this step.
BatchReturnedNow == ReturnedNow /\ last'.op = "batch" /\ last'.sent
\* The responses of the batch that returned validate as a whole: they
\* arrived, their state blocks agree, and the state proof verified.
ValidAsAWhole(r) ==
    /\ ~r.input.transport
    /\ \A i \in DOMAIN r.input.elems : r.input.elems[i].state = r.input.spState
    /\ r.verr = ""
\* Entry i of the results is what sub-response i alone calls for.
EntryFollowsResponse(r, i) ==
    LET e == r.input.elems[i]
    IN  /\ (e.pv >= r.pinned /\ e.ok) => r.results[i] = [kind |-> "Ok", state |-> e.state]
        /\ (e.pv >= r.pinned /\ ~e.ok) => r.results[i].kind = "InvalidProof"

\* C15 as stated: a batch whose responses validate as a whole returns Ok
\* with one result per request, in request order, a failed proof turning
\* only its own entry into InvalidProof.
C15_Original ==
    [][(BatchReturnedNow /\ ValidAsAWhole(last'))
          => /\ last'.ret = "Ok"
             /\ Len(last'.results) = Len(last'.input.elems)
             /\ \A i \in DOMAIN last'.input.elems : EntryFollowsResponse(last', i)]_vars

\* C15 amended: a batch whose responses validate as a whole returns Ok with
\* one result per request, in request order, a failed proof turning only its
\* own entry into InvalidProof, unless storing the newer trusted state
\* fails: then it returns the storage error and no results.
C15_PartialFailure ==
    [][(BatchReturnedNow /\ ValidAsAWhole(last'))
          => \/ /\ last'.ret = "Ok"
                /\ Len(last'.results) = Len(last'.input.elems)
                /\ \A i \in DOMAIN last'.input.elems : EntryFollowsResponse(last', i)
             \/ /\ last'.ret = "StorageError"
                /\ last'.rret = "StorageError"
                /\ LexLT(ts, last'.cand)
                /\ last'.results = <<>>
                /\ ts' = ts]_vars

\* A batch of two returned Ok with an InvalidProof entry before an Ok entry.
C15_Witness ==
    /\ last.op = "batch"
    /\ last.ret = "Ok"
    /\ Len(last.results) = 2
    /\ last.results[1].kind = "InvalidProof"
    /\ last.results[2].kind = "Ok"
    /\ ~last.input.elems[1].ok
    /\ last.cand # NoState

\* C16: when a sub-response's state block differs from another's, batch
\* returns BatchStateMismatch with no per-element results and the store is
\* not ratcheted.
C16_StateMismatch ==
    [][(/\ BatchReturnedNow
        /\ ~last'.input.transport
        /\ \E i \in DOMAIN last'.input.elems :
              \/ last'.input.elems[i].state # last'.input.spState
              \/ \E j \in DOMAIN last'.input.elems :
                    last'.input.elems[i].state # last'.input.elems[j].state)
          => /\ last'.ret = "BatchStateMismatch"
             /\ last'.results = <<>>
             /\ last'.cand = NoState
             /\ ts' = ts
             /\ persisted' = persisted]_vars

\* Two sub-responses of one batch disagreed on the state block.
C16_Witness ==
    /\ last.op = "batch"
    /\ last.ret = "BatchStateMismatch"
    /\ Len(last.input.elems) = 2
    /\ last.input.elems[1].state # last.input.elems[2].state
    /\ last.input.proof.latest > ts.version

\* C17: in a batch that returns its results, an element whose proof is
\* rooted below the pinned version is Err(StaleResponse), and the elements
\* whose proofs are at or above it and verify are decoded and returned.
C17_StaleElement ==
    [][(BatchReturnedNow /\ last'.ret = "Ok")
          => \A i \in DOMAIN last'.input.elems :
                /\ i \in DOMAIN last'.results
                /\ last'.input.elems[i].pv < last'.pinned
                      => last'.results[i].kind = "StaleResponse"
                /\ (last'.input.elems[i].pv >= last'.pinned /\ last'.input.elems[i].ok)
                      => last'.results[i].kind = "Ok"]_vars

\* Pinned above version 0, the first element's proof was below the pinned
\* version and the second element was decoded.
C17_Witness ==
    /\ last.op = "batch"
    /\ last.ret = "Ok"
    /\ last.pinned > 0
    /\ Len(last.results) = 2
    /\ last.input.elems[1].pv < last.pinned
    /\ last.results[1].kind = "StaleResponse"
    /\ last.results[2].kind = "Ok"

\* Scenario S1: a sync step made from the epoch-1 waypoint received a valid
\* state proof whose latest ledger info is in epoch 2, with more = false, and
\* a genesis consistency proof that yields the accumulator summary.
BootstrapStepNow ==
    /\ ReturnedNow
    /\ last'.op \in {"sync", "sync_one_step"}
    /\ snap["t1"] = InitialState
    /\ ~last'.input.transport
    /\ last'.input.state1 = last'.input.state2
    /\ last'.input.state2 = last'.input.proof.latest
    /\ last'.input.conOk
    /\ last'.input.proof.defect = "none"
    /\ ~last'.input.proof.more
    /\ EpochOf(last'.input.proof.latest) = 2

\* C18 as stated: the step leaves the store at the EpochState of the latest
\* ledger info, with an accumulator summary, and returns Ok(false).
C18_Original ==
    [][BootstrapStepNow
          => /\ ts' = TS(last'.input.proof.latest, TRUE)
             /\ last'.step = "OkFalse"]_vars

\* C18 amended: the step leaves the store at the EpochState of the latest
\* ledger info, with an accumulator summary, and returns Ok(false), unless
\* the storage adapter fails to store the new waypoint: then it returns the
\* storage error and the store stays at the waypoint.
C18_Bootstrap ==
    [][BootstrapStepNow
          => \/ /\ ts' = TS(last'.input.proof.latest, TRUE)
                /\ persisted' = Waypoint(ts')
                /\ last'.step = "OkFalse"
             \/ /\ last'.rret = "StorageError"
                /\ last'.step = "StorageError"
                /\ ts' = ts
                /\ persisted' = persisted]_vars

\* The store went from the waypoint to an epoch-2 EpochState in one step.
C18_Witness ==
    /\ last.op = "sync_one_step"
    /\ last.step = "OkFalse"
    /\ last.pinned = 0
    /\ last.input.conOk
    /\ ts.epoch = 2
    /\ ts.acc
    /\ ts = last.cand
    /\ persisted = Waypoint(ts)

\* The object held is what the latest verify call looked at.
Verified == vres.done /\ liws.exists
LiwsQuorumCertified ==
    QuorumCertified(vres.validators, LedgerInfoHash(liws.ledger_info), liws.signatures)

\* C19 as stated: verify returns Ok exactly when the record is
\* quorum-certified under the validator set.
C19_Original ==
    [][vres' # vres => (vres'.ret = "Ok" <=> LiwsQuorumCertified')]_vars

\* C19 amended: for a ledger info with version > 0, verify returns Ok
\* exactly when the record is quorum-certified under the validator set, and
\* an error below the threshold; a nominal ledger info (version 0) verifies
\* Ok whatever its signatures.
C19_QuorumUnlessNominal ==
    [][vres' # vres
          => /\ liws'.ledger_info.version > 0
                  => (vres'.ret = "Ok" <=> LiwsQuorumCertified')
             /\ (liws'.ledger_info.version > 0 /\ ~LiwsQuorumCertified')
                  => vres'.ret = "VerifyError"
             /\ liws'.ledger_info.version = 0 => vres'.ret = "Ok"]_vars

\* Three valid signers of power 1 under a validator set of total power 5
\* (threshold 4): below quorum, verify failed; the fourth signature is bad.
C19_Witness ==
    /\ vres.done
    /\ vres.validators = Addresses
    /\ vres.ret = "VerifyError"
    /\ liws.ledger_info.version > 0
    /\ DOMAIN liws.signatures = Addresses
    /\ ValidSigners(Addresses, LedgerInfoHash(liws.ledger_info), liws.signatures)
          = {"a", "b", "c"}

\* C20: the ledger info of a vote built by VoteMsg::new has as its
\* consensus_data_hash the VoteMsg-domain hash of the raw bytes of
\* proposed_block_id, then executed_state (state_id, version), then round as
\* u64, whatever consensus_data_hash the placeholder carried; its other five
\* fields are the placeholder's.
C20_VoteBinding ==
    vote.made
        => /\ vote.msg.ledger_info.consensus_data_hash
                = [domain |-> "VoteMsg",
                   bytes |-> <<[enc |-> "raw", val |-> vote.proposed_block_id],
                               [enc |-> "raw", val |-> vote.executed_state.state_id],
                               [enc |-> "u64", val |-> vote.executed_state.version],
                               [enc |-> "u64", val |-> vote.round]>>]
           /\ vote.msg.ledger_info.version = vote.placeholder.version
           /\ vote.msg.ledger_info.transaction_accumulator_hash
                = vote.placeholder.transaction_accumulator_hash
           /\ vote.msg.ledger_info.consensus_block_id = vote.placeholder.consensus_block_id
           /\ vote.msg.ledger_info.epoch_num = vote.placeholder.epoch_num
           /\ vote.msg.ledger_info.timestamp_usecs = vote.placeholder.timestamp_usecs

\* A vote for round 1 was built from a placeholder at version 1 whose
\* consensus_data_hash was replaced.
C20_Witness ==
    /\ vote.made
    /\ vote.round = 1
    /\ vote.placeholder.version = 1
    /\ vote.placeholder.consensus_data_hash = RawHash(2)
    /\ vote.msg.ledger_info.consensus_data_hash.domain = "VoteMsg"
    /\ vote.msg.ledger_info.timestamp_usecs = 5

\* The vote was verified under the validator set {signer -> its key}, and
\* the signer is the vote's author.
VerifiedUnderSigner ==
    /\ vote.made
    /\ vote.verify.done
    /\ vote.msg.author = vote.signer
    /\ vote.verify.validator = [a \in {vote.signer} |-> KeyOf(a)]

C22_HashLayout ==
    vote.made
        => LET L == vote.msg.ledger_info
               R == vote.received.ledger_info
           IN  /\ vote.msg.signature.hash = LedgerInfoHash(L)
               /\ LedgerInfoHash(LedgerInfoClone(L)) = LedgerInfoHash(L)
               /\ LedgerInfoHash(L)
                    = [domain |-> "LedgerInfo",
                       bytes |-> <<[enc |-> "u64", val |-> L.version],
                                   [enc |-> "bytes", len |-> 32,
                                    val |-> L.transaction_accumulator_hash],
                                   [enc |-> "bytes", len |-> 32,
                                    val |-> L.consensus_data_hash],
                                   [enc |-> "bytes", len |-> 32,
                                    val |-> L.consensus_block_id],
                                   [enc |-> "u64", val |-> L.epoch_num],
                                   [enc |-> "u64", val |-> L.timestamp_usecs]>>]
               /\ R # L => /\ LedgerInfoSerialize(R) # LedgerInfoSerialize(L)
                           /\ LedgerInfoHash(R) # LedgerInfoHash(L)

\* Two ledger infos that differ in the timestamp only were hashed.
C22_Witness ==
    /\ vote.made
    /\ vote.changed
    /\ vote.received.ledger_info
          = [vote.msg.ledger_info EXCEPT !.timestamp_usecs = @ + 1]
    /\ vote.msg.signature.hash.domain = "LedgerInfo"
    /\ vote.received.signature.hash = LedgerInfoHash(vote.received.ledger_info)

\* C23: when sync() returns Ok, the store's trusted state has an accumulator
\* summary and the bootstrap gate lets the next batch through, also when the
\* state proof yielded NoChange.
C23_SyncBootstraps ==
    [][(ReturnedNow /\ last'.op = "sync" /\ last'.ret = "Ok")
          => (ts'.acc /\ BatchGate(ts') = "")]_vars

\* C24: sync_one_step takes one snapshot of the store and sends one exchange
\* pinned to the snapshot's version: get_state_proof(version) alone when the
\* snapshot has an accumulator summary, otherwise the batch
\* [get_accumulator_consistency_proof(genesis, version),
\* get_state_proof(version)]; until the responses are consumed the snapshot
\* and the requests stay as they are, and nothing else is sent.
C24_OneExchange ==
    [][\A t \in Tasks :
          /\ (pc[t] = "step_start" /\ pc'[t] # "step_start")
                => /\ pc'[t] = "step_wait"
                   /\ snap'[t] = ts
                   /\ inflight'[t]
                        = IF ts.acc
                          THEN <<[method |-> "get_state_proof",
                                  from_version |-> ts.version]>>
                          ELSE <<[method |-> "get_accumulator_consistency_proof",
                                  client_known_version |-> "None",
                                  ledger_version |-> ts.version],
                                 [method |-> "get_state_proof",
                                  from_version |-> ts.version]>>
          /\ (pc[t] = "step_wait" /\ pc'[t] = "step_wait")
                => (snap'[t] = snap[t] /\ inflight'[t] = inflight[t])
          /\ (pc[t] = "step_wait" /\ pc'[t] # "step_wait")
                => (inflight'[t] = <<>> /\ pc'[t] \in {"idle", "step_start"})
          /\ (pc[t] # "step_start" /\ pc'[t] = "step_wait") => pc[t] = "step_wait"]_vars

\* A step made from the waypoint is waiting for its two responses while the
\* other task has moved the store on.
C24_Witness ==
    /\ pc["t1"] = "step_wait"
    /\ snap["t1"] = InitialState
    /\ Len(inflight["t1"]) = 2
    /\ inflight["t1"][1].method = "get_accumulator_consistency_proof"
    /\ inflight["t1"][2].from_version = 0
    /\ ts.version = 2
    /\ ts.acc

\* A sync step whose responses arrived returned in this step.
StepReturnedNow ==
    /\ ReturnedNow
    /\ last'.op \in {"sync", "sync_one_step"}
    /\ ~last'.input.transport
\* The step that returned stopped before proof verification: it returned an
\* error, nothing was verified or offered to the store, the store is as it was.
StoppedBeforeVerification ==
    /\ last'.step \notin {"OkTrue", "OkFalse"}
    /\ last'.verr = ""
    /\ last'.rret = "none"
    /\ last'.cand = NoState
    /\ ts' = ts
    /\ persisted' = persisted

\* C25: a sync step whose two bootstrap responses carry different state
\* blocks, or whose state proof's latest ledger info does not match the
\* response's state block, returns an error without verifying the proof and
\* without touching the store; a step that verified a proof or called the
\* ratchet had consistent response metadata.
C25_MetadataFirst ==
    [][StepReturnedNow
          => LET x == last'.input
                 bootstrap == ~snap["t1"].acc
             IN  /\ (bootstrap /\ x.state1 # x.state2) => StoppedBeforeVerification
                 /\ x.proof.latest # x.state2 => StoppedBeforeVerification
                 /\ (last'.verr # "" \/ last'.rret # "none")
                       => /\ bootstrap => x.state1 = x.state2
                          /\ x.proof.latest = x.state2]_vars

\* A bootstrap step got two responses with different state blocks and a
\* valid proof of a newer state; it returned an error.
C25_Witness ==
    /\ last.op = "sync_one_step"
    /\ last.step = "RpcResponse"
    /\ last.input.state1 # last.input.state2
    /\ last.input.proof.defect = "none"
    /\ last.input.proof.latest > ts.version
    /\ last.input.conOk
    /\ ts = InitialState

\* A sync step made from a trusted state without accumulator summary handed
\* its proof to verify_and_ratchet in this step.
BootstrapVerifiedNow ==
    /\ StepReturnedNow
    /\ ~snap["t1"].acc
    /\ (last'.verr # "" \/ last'.rret # "none")
\* The extra accumulator was checked against the accumulator hash of the
\* latest ledger info: a mismatch fails InvalidAccumulator, store untouched.
CheckedAgainstLatest ==
    last'.input.proof.defect = "acc"
        => (last'.verr = "InvalidAccumulator" /\ ts' = ts /\ persisted' = persisted)

DirectReturnedNow == ReturnedNow /\ last'.op = "verify_and_ratchet"

\* C27: verify_and_ratchet fails with InvalidSignatures whenever the proof's
\* latest ledger info is not quorum-certified under the validator set of
\* old's epoch, whatever else is wrong with the proof, whether or not the
\* proof carries epoch changes, and also when old is an epoch waypoint.
C27_SignaturesFirst ==
    [][(DirectReturnedNow /\ last'.input.proof.defect \in {"sig", "every"})
          => /\ last'.verr = "InvalidSignatures"
             /\ last'.cand = NoState
             /\ last'.kind = "none"]_vars

\* From the epoch-1 waypoint, a proof whose latest ledger info lies in epoch 2
\* and that has every defect failed with InvalidSignatures.
C27_Witness ==
    /\ last.op = "verify_and_ratchet"
    /\ last.input.old = InitialState
    /\ EpochOf(last.input.proof.latest) > last.input.old.epoch
    /\ last.input.proof.defect = "every"
    /\ ~last.input.extra
    /\ last.verr = "InvalidSignatures"

\* The proof passed the checks that come before the accumulator handling:
\* signatures, epoch changes and, for a waypoint, the waypoint.
PassedEarlierChecks(x) ==
    /\ x.proof.defect \notin {"sig", "epoch", "every"}
    /\ x.old.acc \/ x.proof.defect # "waypoint"

\* C28 as stated: verify_and_ratchet fails with InvalidAccumulator when old
\* has no accumulator summary and no extra accumulator is supplied, and when
\* the accumulator root differs from the latest ledger info's accumulator
\* hash; every state a successful call produces carries an accumulator
\* summary checked against that hash.
C28_Original ==
    [][DirectReturnedNow
          => LET x == last'.input
             IN  /\ (~x.old.acc /\ ~x.extra) => last'.verr = "InvalidAccumulator"
                 /\ x.proof.defect \in {"acc", "every"}
                       => last'.verr = "InvalidAccumulator"
                 /\ last'.cand # NoState
                       => /\ last'.cand.acc
                          /\ x.proof.defect \notin {"acc", "every"}]_vars

\* C28 amended: for a proof that passed the signature, epoch-change and
\* waypoint checks, which come first, verify_and_ratchet fails with
\* InvalidAccumulator when old has no accumulator summary and no extra
\* accumulator is supplied, and when the accumulator root differs from the
\* latest ledger info's accumulator hash; a failed call produces no state,
\* and every state a successful call produces carries an accumulator summary
\* checked against the accumulator hash of the latest ledger info, whose
\* version it has.
C28_AccumulatorHandling ==
    [][DirectReturnedNow
          => LET x == last'.input
             IN  /\ (PassedEarlierChecks(x) /\ ~x.old.acc /\ ~x.extra)
                       => last'.verr = "InvalidAccumulator"
                 /\ (PassedEarlierChecks(x) /\ x.proof.defect = "acc")
                       => last'.verr = "InvalidAccumulator"
                 /\ last'.verr = "InvalidAccumulator"
                       => (last'.cand = NoState /\ ts' = ts /\ persisted' = persisted)
                 /\ last'.cand # NoState
                       => /\ last'.cand.acc
                          /\ last'.cand.version = x.proof.latest
                          /\ x.proof.defect \notin {"acc", "every"}
                          /\ x.old.acc \/ x.extra
                 /\ ts' # ts => ts'.acc]_vars

\* From the waypoint, a valid proof of a newer state without an extra
\* accumulator failed with InvalidAccumulator.
C28_Witness ==
    /\ last.op = "verify_and_ratchet"
    /\ last.input.old = InitialState
    /\ ~last.input.extra
    /\ last.input.proof.defect = "none"
    /\ last.input.proof.latest = 2
    /\ last.verr = "InvalidAccumulator"
    /\ ts = InitialState

\* C29: the store's trusted state and the persisted waypoint change only in
\* the step in which a call returns, by the one ratchet at its end, which
\* stores the candidate; a batch, sync or sync_one_step that returns an error
\* (the bootstrap gate, a failed RPC, a response that does not validate) or
\* is cancelled at its await leaves both as they were.
C29_WriteLast ==
    [][/\ (ts' # ts \/ persisted' # persisted)
            => /\ ReturnedNow
               /\ last'.rret = "Ok"
               /\ last'.cand # NoState
               /\ ts' = last'.cand
               /\ persisted' = Waypoint(last'.cand)
               /\ last'.op \in {"batch", "sync", "sync_one_step"}
                     => /\ pc["t1"] \in {"step_wait", "batch_wait"}
                        /\ pc'["t1"] \in {"idle", "step_start"}
                        /\ last'.ret \in {"Ok", "pending", "OkTrue", "OkFalse"}
       /\ (/\ ReturnedNow
           /\ last'.op \in {"batch", "sync", "sync_one_step"}
           /\ last'.ret \notin {"Ok", "pending", "OkTrue", "OkFalse"})
            => (ts' = ts /\ persisted' = persisted)
       /\ pc'["t1"] \in {"step_wait", "batch_wait"}
            => (ts' = ts /\ persisted' = persisted)]_vars

\* A batch pinned at version 1 was cancelled at its await; the store is where
\* it was.
C29_Witness ==
    /\ last.op = "batch"
    /\ last.ret = "Cancelled"
    /\ last.sent
    /\ last.pinned = 1
    /\ ts = TS(1, TRUE)
    /\ persisted = Waypoint(ts)

\* C30: the proof of a sync step or a batch is verified against the snapshot
\* taken when the request was made: the candidate handed to ratchet is the
\* proof's state exactly when that state is above the snapshot, whatever the
\* store holds by then; it is never below the snapshot, and when it is not
\* above the store's current state the ratchet returns Ok and writes nothing.
C30_VerifiedAgainstSnapshot ==
    [][(/\ ReturnedNow
        /\ last'.op \in {"batch", "sync", "sync_one_step"}
        /\ last'.rret # "none")
          => LET old == snap["t1"]
                 new == TS(last'.input.proof.latest, TRUE)
             IN  /\ last'.cand = IF LexLT(old, new) THEN new ELSE NoState
                 /\ last'.cand # NoState => LexLE(old, last'.cand)
                 /\ (last'.cand # NoState /\ LexLE(last'.cand, ts))
                       => (last'.rret = "Ok" /\ ts' = ts /\ persisted' = persisted)]_vars

\* A step made from the waypoint verified a proof of version 1 after the
\* other task had moved the store to version 2: the candidate is above the
\* snapshot and below the store.
C30_Witness ==
    /\ last.op = "sync_one_step"
    /\ last.pinned = 0
    /\ last.cand = TS(1, TRUE)
    /\ last.rret = "Ok"
    /\ ts = TS(2, TRUE)

\* The signers of the verified record, under the validator set of the
\* latest verify call, whose signature is their own key's over the hash of
\* the record's ledger info.
SignersOverLedgerHash ==
    {a \in vres.validators \cap DOMAIN liws.signatures :
        /\ liws.signatures[a].key = KeyOf(a)
        /\ liws.signatures[a].hash = LedgerInfoHash(liws.ledger_info)}

\* C31: verify returns Ok for every record whose ledger info has version 0,
\* whatever its signature map (the empty one included) and whatever the
\* validator set; for a version other than 0 the signatures are looked at:
\* Ok needs signers over the LedgerInfo hash that reach the quorum, so a
\* record with no such signer is refused.
C31_NominalSkipsSignatures ==
    [][vres' # vres
          => /\ liws'.ledger_info.version = 0 => vres'.ret = "Ok"
             /\ (liws'.ledger_info.version # 0 /\ vres'.ret = "Ok")
                   => /\ SignersOverLedgerHash' # {}
                      /\ TotalPower(SignersOverLedgerHash')
                            >= QuorumThreshold(vres'.validators)
             /\ (liws'.ledger_info.version # 0 /\ SignersOverLedgerHash' = {})
                   => vres'.ret = "VerifyError"]_vars

\* A nominal record with an empty signature map verified Ok against the
\* full validator set.
C31_Witness ==
    /\ Verified
    /\ liws.ledger_info.version = 0
    /\ DOMAIN liws.signatures = {}
    /\ vres.validators = Addresses
    /\ vres.ret = "Ok"

\* The vote as verify saw it: whether its ledger info carries the digest of
\* its own vote data, and whether its signature is the author's over the
\* hash of its ledger info under the verifier handed to verify.
DigestMatches ==
    vote.received.ledger_info.consensus_data_hash
        = VoteDigest(vote.received.proposed_block_id, vote.received.executed_state,
                     vote.received.round)
SignatureValid ==
    /\ vote.received.author \in DOMAIN vote.verify.validator
    /\ vote.received.signature.key = vote.verify.validator[vote.received.author]
    /\ vote.received.signature.hash = LedgerInfoHash(vote.received.ledger_info)

\* C32: verify returns ConsensusDataMismatch whenever the ledger info's
\* consensus_data_hash differs from the vote digest, whether or not the
\* signature is valid, and only then; SigVerifyError is returned only when
\* the digest matches and the signature check failed, and Ok only when both
\* checks passed.
C32_DigestBeforeSignature ==
    (vote.made /\ vote.verify.done)
        => /\ ~DigestMatches <=> vote.verify.err = "ConsensusDataMismatch"
           /\ vote.verify.err = "SigVerifyError"
                 <=> (DigestMatches /\ ~SignatureValid)
           /\ vote.verify.err = "" <=> (DigestMatches /\ SignatureValid)
           /\ vote.verify.err \in {"", "ConsensusDataMismatch", "SigVerifyError"}

\* A vote arrived with the placeholder's consensus data hash in its ledger
\* info and the author's valid signature over that ledger info: verify
\* returned ConsensusDataMismatch.
C32_Witness ==
    /\ vote.made
    /\ vote.verify.done
    /\ vote.changed
    /\ ~DigestMatches
    /\ SignatureValid
    /\ vote.verify.err = "ConsensusDataMismatch"

\* C33: when get_account_transaction returns an error (the bootstrap gate's
\* NeedSync, a transport error, a proof error), wait_for_transaction returns
\* GetTransactionError carrying it in that same step, before the timeout
\* has been reached; it returns GetTransactionError in no other case, and
\* once it has returned the task neither polls nor sleeps again.
C33_ErrorEndsWait ==
    [][/\ (Waiting /\ wait'.err # "")
            => /\ pc["t1"] \in {"wait_loop", "wait_poll"}
               /\ wait'.ret = "GetTransactionError"
               /\ pc'["t1"] = "idle"
               /\ op'["t1"] = "none"
               /\ wait.elapsed < UnwrapOr(wait.timeout, DEFAULT_TIMEOUT)
       /\ (wait.ret = "none" /\ wait'.ret = "GetTransactionError")
            => (Waiting /\ wait'.err # "")
       /\ (/\ pc["t1"] = "wait_loop"
           /\ pc'["t1"] # "wait_loop"
           /\ wait.elapsed < UnwrapOr(wait.timeout, DEFAULT_TIMEOUT)
           /\ ~ts.acc)
            => (wait'.err = "NeedSync" /\ wait'.ret = "GetTransactionError")
       /\ wait.ret = "GetTransactionError"
            => (~Waiting /\ (wait'.ret = wait.ret => wait' = wait))]_vars

\* After an earlier poll that found nothing and a sleep, a poll failed on a
\* proof and the call returned the error well before its timeout.
C33_Witness ==
    /\ wait.ret = "GetTransactionError"
    /\ wait.err = "InvalidProof"
    /\ wait.elapsed > 50
    /\ wait.elapsed < UnwrapOr(wait.timeout, DEFAULT_TIMEOUT)
    /\ pc["t1"] = "idle"

\* The ledger timestamp of the call's last poll has reached the expiration.
PastExpiration == wait.expiration_time_secs <= wait.timestamp_usecs \div UsecsPerSec

\* C34: within one poll a returned transaction takes precedence over the
\* expiration: a poll that returns a transaction ends the call with Ok or
\* HashMismatch, also when the ledger timestamp of the same response is
\* already past the expiration; Expired is returned only from a poll that
\* returned no transaction.
C34_TransactionBeforeExpiry ==
    [][/\ (pc["t1"] = "wait_poll" /\ wait'.err = "" /\ wait'.maybe_txn # NoTxn)
            => /\ wait'.ret = IF wait'.maybe_txn = wait.txn_hash THEN "Ok"
                              ELSE "HashMismatch"
               /\ PastExpiration' => wait'.ret # "Expired"
               /\ pc'["t1"] = "idle"
       /\ (wait.ret = "none" /\ wait'.ret = "Expired")
            => /\ pc["t1"] = "wait_poll"
               /\ wait'.err = ""
               /\ wait'.maybe_txn = NoTxn
               /\ PastExpiration']_vars

\* A poll returned the awaited transaction with a ledger timestamp of two
\* seconds, past the expiration of one second: the call returned Ok.
C34_Witness ==
    /\ wait.ret = "Ok"
    /\ wait.maybe_txn = wait.txn_hash
    /\ wait.expiration_time_secs = 1
    /\ wait.timestamp_usecs = 2000000
    /\ PastExpiration

\* C35: wait_for_signed_transaction(txn) waits on txn's sender, sequence
\* number and expiration time and on the hash of
\* Transaction::UserTransaction(txn); it returns TransactionExecutionFailed
\* exactly when the wait succeeded and the found transaction's vm_status is
\* not executed, Ok exactly when the wait succeeded and it is executed, and
\* otherwise the wait's own error.
C35_SignedWait ==
    wait.signed
        => /\ wait.address = wait.txn.sender
           /\ wait.seq = wait.txn.sequence_number
           /\ wait.expiration_time_secs = wait.txn.expiration_timestamp_secs
           /\ wait.txn_hash
                 = [domain |-> "Transaction", bytes |-> <<"UserTransaction", wait.txn>>]
           /\ wait.ret = "Ok" => wait.maybe_txn = wait.txn_hash
           /\ wait.outer = "TransactionExecutionFailed"
                 <=> (wait.ret = "Ok" /\ wait.vm_status # "Executed")
           /\ wait.outer = "Ok" <=> (wait.ret = "Ok" /\ wait.vm_status = "Executed")
           /\ wait.ret # "Ok" => wait.outer = wait.ret
           /\ wait.ret # "none" => wait.outer # "none"

\* The wait found the signed transaction of sender b with sequence number 1
\* after a sleep, with a vm_status that is not executed: the call returned
\* TransactionExecutionFailed.
C35_Witness ==
    /\ wait.signed
    /\ wait.txn.sender = "b"
    /\ wait.txn.sequence_number = 1
    /\ wait.elapsed >= 100
    /\ wait.ret = "Ok"
    /\ wait.vm_status = "OutOfGas"
    /\ wait.outer = "TransactionExecutionFailed"
    /\ pc["t1"] = "idle"

\* C36: add_signature keeps one signature per validator and the first one
\* wins: at every moment the map holds, for each validator a signature was
\* ever supplied for, exactly the first one supplied; a call for a validator
\* already in the map leaves the whole map unchanged, and a call for a new
\* validator adds its entry and changes no other.
C36_FirstSignatureWins ==
    /\ [](liws.exists => liws.signatures = liws.first)
    /\ [][(liws.exists /\ liws'.added # liws.added)
            => LET v == liws'.added.validator
                   old == liws.signatures
                   new == liws'.signatures
               IN  /\ v \in DOMAIN old => new = old
                   /\ v \notin DOMAIN old
                        => /\ DOMAIN new = DOMAIN old \cup {v}
                           /\ new[v] = liws'.added.signature
                           /\ \A a \in DOMAIN old : new[a] = old[a]]_vars

\* The latest call supplied, for a validator that already had a signature,
\* a different one: the map still holds the earlier signature.
C36_Witness ==
    /\ liws.exists
    /\ liws.added.validator \in DOMAIN liws.signatures
    /\ liws.added.signature # liws.signatures[liws.added.validator]
    /\ Cardinality(DOMAIN liws.signatures) >= 2

\* The type's MAX of the checked function called, and the exact sum or
\* product of its operands.
Additions == {"AddU8", "AddU64", "AddU128"}
Multiplications == {"MulU8", "MulU64", "MulU128"}
MaxOf(fn) ==
    IF fn \in {"AddU8", "MulU8"} THEN MAX_U8
    ELSE IF fn \in {"AddU64", "MulU64"} THEN MAX_U64
    ELSE MAX_U128
ExactResult == IF yul.fn \in Multiplications THEN Product(yul.x, yul.y) ELSE Sum(yul.x, yul.y)

\* C37: MulU8, MulU64 and MulU128 abort exactly when the product x * y
\* exceeds the type's MAX and otherwise return x * y, for all operands
\* within the type's range, x = 0 included; AddU8, AddU64 and AddU128 abort
\* exactly when x + y exceeds MAX, and otherwise return x + y.
C37_CheckedArithmetic ==
    yul.fn \in Additions \cup Multiplications
        => /\ yul.reverted <=> Less(MaxOf(yul.fn), ExactResult)
           /\ ~yul.reverted => yul.r = ExactResult

\* C38: the pointer helpers round-trip: for is_storage 0 or 1 and every
\* offset, IsStoragePtr(MakePtr(is_storage, offs)) is is_storage and
\* OffsetPtr(MakePtr(is_storage, offs)) is offs, and the lowest bit of the
\* pointer holds the storage flag.
C38_PointerRoundTrip ==
    (yul.ptr.some /\ yul.fn \in {"MakePtr", "IsStoragePtr", "OffsetPtr"})
        => /\ yul.fn = "IsStoragePtr" => yul.r = yul.ptr.is_storage
           /\ yul.fn = "OffsetPtr" => yul.r = yul.ptr.offs
           /\ 0 \in yul.ptr.value <=> yul.ptr.is_storage = One

====
